---- MODULE Spec2Model ----
(***************************************************************************)
(* Model of the unit-conversion engine of ivs/units/conversions.py (with   *)
(* the passband look-ups of ivs/sed/filters.py it relies on).               *)
(*                                                                         *)
(* Unit expressions are sequences of one-character strings, so that the    *)
(* alias replacement, the '/' rewriting, the regular expressions and the   *)
(* prefix resolution are computed as the code computes them.  Floating     *)
(* point values are exact numbers  n/d * 10^e * prod(sym^x[sym])  over the *)
(* symbolic constants of Syms (pi, the speed of light, the constants of    *)
(* ivs.units.constants); not-a-number is a value of its own.               *)
(***************************************************************************)
EXTENDS Integers, Sequences, FiniteSets, TLC

(***************************************************************************)
(* Numbers                                                                 *)
(***************************************************************************)

\* symbolic constants: numpy's pi, the names imported from ivs.units.constants,
\* the two literals 1.0027379093 (sidereal) and 4046.8564224 (acre), and the
\* natural logarithm of ten that the derivatives of 10**x and log10 bring in,
\* the average (1 + 1e10)/2 of the OPEN.BOL response (openbol) and the zero
\* fluxes 3.6307805477010024e-23 (F0AB) and 0.036307805477010027 (F0ST)
Syms ==
    {"pi", "cc", "au", "pc", "ly", "Rsol", "Rearth", "a0", "Msol", "Mearth",
     "Mjup", "Mlun", "Lsol", "sidereal", "acre", "ln10", "openbol", "F0AB", "F0ST",
     "sigma", "GG", "GG_cgs"}

\* the powers of the symbolic constants in a number: a function from the
\* constants that occur in it to their nonzero powers
NoSyms == [s \in {} |-> 0]

PowerOf(x, s) ==
    IF s \in DOMAIN x THEN x[s] ELSE 0

TimesSyms(x, y) ==
    [s \in {t \in DOMAIN x \cup DOMAIN y : PowerOf(x, t) + PowerOf(y, t) # 0} |->
        PowerOf(x, s) + PowerOf(y, s)]

\* the one element of a set of one element
The(S) ==
    CHOOSE v \in S : TRUE

\* With([x \in {v} |-> e]) is e for x = v: it names the value v in e
With(f) ==
    f[The(DOMAIN f)]

Min(S) ==
    CHOOSE i \in S : \A j \in S : i <= j

Max(S) ==
    CHOOSE i \in S : \A j \in S : i >= j

RECURSIVE GCD(_, _)
GCD(a, b) ==
    IF b = 0 THEN a ELSE GCD(b, a % b)

AbsInt(a) ==
    IF a < 0 THEN -a ELSE a

RECURSIVE Mult(_, _)
\* how many times p divides a (a # 0)
Mult(a, p) ==
    IF a % p = 0 THEN 1 + Mult(a \div p, p) ELSE 0

RECURSIVE Pow(_, _)
\* integer power b^k, k >= 0
Pow(b, k) ==
    IF k = 0 THEN 1
    ELSE IF k = 1 THEN b
    ELSE IF k % 2 = 0 THEN Pow(b * b, k \div 2)
    ELSE b * Pow(b * b, k \div 2)

NaN == [n |-> 0, d |-> 0, e |-> 0, x |-> NoSyms]

\* a value outside the numbers this model represents (a sum over different
\* symbolic constants, a non-integer power of ten): calls that produce one
\* are outside the inputs of the model
Unrep == [n |-> 1, d |-> 0, e |-> 0, x |-> NoSyms]

One == [n |-> 1, d |-> 1, e |-> 0, x |-> NoSyms]

Zero == [n |-> 0, d |-> 1, e |-> 0, x |-> NoSyms]

IsNaN(a) ==
    a.d = 0 /\ a.n = 0

IsUnrep(a) ==
    a.d = 0 /\ a.n # 0

\* not-a-number and the unrepresentable propagate through every operation
Bad1(a) ==
    a.d = 0

Bad2(a, b) ==
    a.d = 0 \/ b.d = 0

BadOf(a, b) ==
    IF IsUnrep(a) \/ IsUnrep(b) THEN Unrep ELSE NaN

RECURSIVE Norm(_, _, _, _)
\* the number n/d * 10^e * prod sym^x in normal form: n/d reduced, d > 0 and
\* coprime to 10, n not a multiple of 10; zero is 0/1 * 10^0
Norm(n, d, e, x) ==
    IF d = 0 THEN NaN
    ELSE IF n = 0 THEN Zero
    ELSE IF d < 0 THEN Norm(-n, -d, e, x)
    \* n/d reduced
    ELSE IF GCD(AbsInt(n), d) > 1
         THEN Norm(n \div GCD(AbsInt(n), d), d \div GCD(AbsInt(n), d), e, x)
    \* the powers of 2 and of 5 of the denominator are moved to 10^e
    ELSE IF d % 2 = 0 THEN Norm(n * 5, d \div 2, e - 1, x)
    ELSE IF d % 5 = 0 THEN Norm(n * 2, d \div 5, e - 1, x)
    ELSE IF n % 10 = 0 THEN Norm(n \div 10, d, e + 1, x)
    ELSE [n |-> n, d |-> d, e |-> e, x |-> x]

\* the decimal literal n * 10^e
Dec(n, e) ==
    Norm(n, 1, e, NoSyms)

Int2Num(n) ==
    Norm(n, 1, 0, NoSyms)

\* a symbolic constant
Sym(s) ==
    [n |-> 1, d |-> 1, e |-> 0, x |-> [t \in {s} |-> 1]]

Mul(a, b) ==
    IF Bad2(a, b) THEN BadOf(a, b)
    ELSE Norm((a.n \div GCD(AbsInt(a.n), b.d)) * (b.n \div GCD(AbsInt(b.n), a.d)),
              (a.d \div GCD(AbsInt(b.n), a.d)) * (b.d \div GCD(AbsInt(a.n), b.d)),
              a.e + b.e, TimesSyms(a.x, b.x))

\* 1 / a; numpy gives inf for a = 0, which the model does not represent
Inv(a) ==
    IF Bad1(a) THEN a
    ELSE IF a.n = 0 THEN Unrep
    ELSE Norm(a.d, a.n, -a.e, [s \in DOMAIN a.x |-> -a.x[s]])

Div(a, b) ==
    Mul(a, Inv(b))

Neg(a) ==
    [a EXCEPT !.n = IF a.d = 0 THEN a.n ELSE -a.n]

Abs(a) ==
    [a EXCEPT !.n = AbsInt(a.n)]

\* the sum; the two numbers must carry the same symbolic constants
Add(a, b) ==
    IF Bad2(a, b) THEN BadOf(a, b)
    ELSE IF a.n = 0 THEN b
    ELSE IF b.n = 0 THEN a
    ELSE IF a.x # b.x THEN Unrep
    ELSE With([m \in {IF a.e < b.e THEN a.e ELSE b.e} |->
         Norm(a.n * Pow(10, a.e - m) * b.d + b.n * Pow(10, b.e - m) * a.d,
              a.d * b.d, m, a.x)])

Sub(a, b) ==
    Add(a, Neg(b))

\* a ** k for an integer k
PowNum(a, k) ==
    IF k = 0 THEN Int2Num(1)
    ELSE IF Bad1(a) THEN a
    ELSE IF k < 0 THEN Inv(Norm(Pow(a.n, -k), Pow(a.d, -k), -a.e * k, [s \in DOMAIN a.x |-> -a.x[s] * k]))
    ELSE Norm(Pow(a.n, k), Pow(a.d, k), a.e * k, [s \in DOMAIN a.x |-> a.x[s] * k])

IsInteger(a) ==
    ~Bad1(a) /\ a.d = 1 /\ a.e >= 0 /\ a.x = NoSyms

\* 10 ** a, for an integer a
Pow10(a) ==
    IF Bad1(a) THEN a
    ELSE IF ~IsInteger(a) THEN Unrep
    ELSE Norm(1, 1, a.n * Pow(10, a.e), NoSyms)

\* log10(a), for a power of ten; numpy gives not-a-number for a < 0
Log10(a) ==
    IF Bad1(a) THEN a
    ELSE IF a.n < 0 THEN NaN
    ELSE IF ~(a.n = 1 /\ a.d = 1 /\ a.x = NoSyms) THEN Unrep
    ELSE Int2Num(a.e)

\* sqrt(a*a + b*b), for a, b >= 0 one of which is zero
Hypot(a, b) ==
    IF Bad2(a, b) THEN BadOf(a, b)
    ELSE IF b.n = 0 THEN a
    ELSE IF a.n = 0 THEN b
    ELSE Unrep



(***************************************************************************)
(* Strings: sequences of one-character strings                             *)
(***************************************************************************)

\* the printable ASCII characters in code-point order, from ' ' (32)
Ascii ==
    <<" ", "!", "dquote", "#", "$", "%", "&", "'", "(", ")", "*", "+", ",", "-",
      ".", "/", "0", "1", "2", "3", "4", "5", "6", "7", "8", "9", ":", ";",
      "<", "=", ">", "?", "@", "A", "B", "C", "D", "E", "F", "G", "H", "I",
      "J", "K", "L", "M", "N", "O", "P", "Q", "R", "S", "T", "U", "V", "W",
      "X", "Y", "Z", "[", "backslash", "]", "^", "_", "backtick", "a", "b", "c", "d", "e",
      "f", "g", "h", "i", "j", "k", "l", "m", "n", "o", "p", "q", "r", "s",
      "t", "u", "v", "w", "x", "y", "z", "{", "|", "}", "~">>

\* ord() of Python
Ord(c) ==
    With([chars \in {Ascii} |->
    31 + CHOOSE i \in DOMAIN chars : chars[i] = c])

Digits == <<"0", "1", "2", "3", "4", "5", "6", "7", "8", "9">>

\* str.isdigit() of one character
IsDigit(c) ==
    \E i \in 1..10 : Digits[i] = c

DigitVal(c) ==
    (CHOOSE i \in 1..10 : Digits[i] = c) - 1

RECURSIVE ParseInt(_)
\* int() / float() of a string of digits
ParseInt(s) ==
    IF s = <<>> THEN 0
    ELSE 10 * ParseInt(SubSeq(s, 1, Len(s) - 1)) + DigitVal(s[Len(s)])

RECURSIVE NatToStr(_)
NatToStr(k) ==
    IF k < 10 THEN <<Digits[k + 1]>>
    ELSE NatToStr(k \div 10) \o <<Digits[(k % 10) + 1]>>

\* '%d' % k
IntToStr(k) ==
    IF k < 0 THEN <<"-">> \o NatToStr(-k) ELSE NatToStr(k)

\* s[i:j] of Python, 0-based, end exclusive, clipped
Slice(s, i, j) ==
    SubSeq(s, i + 1, IF j > Len(s) THEN Len(s) ELSE j)

StartsWith(s, t) ==
    Len(t) <= Len(s) /\ SubSeq(s, 1, Len(t)) = t

\* t in s
Contains(s, t) ==
    \E i \in 1..(Len(s) - Len(t) + 1) : SubSeq(s, i, i + Len(t) - 1) = t

RECURSIVE Replace(_, _, _)
\* str.replace(old, new): every non-overlapping occurrence, left to right
Replace(s, old, new) ==
    IF ~Contains(s, old) THEN s
    ELSE With([i \in {Min({k \in 1..(Len(s) - Len(old) + 1) : SubSeq(s, k, k + Len(old) - 1) = old})} |->
         SubSeq(s, 1, i - 1) \o new \o Replace(SubSeq(s, i + Len(old), Len(s)), old, new)])

RECURSIVE SplitOn(_, _)
\* str.split(sep) for a one-character separator: empty parts are kept
SplitOn(s, sep) ==
    IF \A i \in 1..Len(s) : s[i] # sep THEN <<s>>
    ELSE With([i \in {Min({k \in 1..Len(s) : s[k] = sep})} |->
         <<SubSeq(s, 1, i - 1)>> \o SplitOn(SubSeq(s, i + 1, Len(s)), sep)])

\* str.split(): split on runs of blanks, no empty parts
Split(s) ==
    SelectSeq(SplitOn(s, " "), LAMBDA t : t # <<>>)

RECURSIVE Join(_, _)
\* sep.join(parts)
Join(parts, sep) ==
    IF parts = <<>> THEN <<>>
    ELSE IF Len(parts) = 1 THEN parts[1]
    ELSE parts[1] \o sep \o Join(Tail(parts), sep)

RECURSIVE StrLess(_, _)
\* s < t for Python strings
StrLess(s, t) ==
    IF t = <<>> THEN FALSE
    ELSE IF s = <<>> THEN TRUE
    ELSE IF s[1] # t[1] THEN Ord(s[1]) < Ord(t[1])
    ELSE StrLess(Tail(s), Tail(t))

RECURSIVE Sorted(_)
\* sorted() of a list of strings (insertion of the head into the sorted tail)
Sorted(l) ==
    IF l = <<>> THEN <<>>
    ELSE With([r \in {Sorted(Tail(l))} |->
         With([k \in {Cardinality({i \in 1..Len(r) : StrLess(r[i], l[1])})} |->
         SubSeq(r, 1, k) \o <<l[1]>> \o SubSeq(r, k + 1, Len(r))])])

VARIABLES
    \* the module's registries: basic units, prefixes (in the order in which the
    \* dict iterates), aliases and change-of-base functions
    _factors, _scalings, _aliases, _switch,
    \* the iteration order of the dict of keyword arguments of a call
    kwargs_order,
    \* the call under way: its operation and arguments
    call,
    \* what the call returned or raised
    ret

\* what no call changes
globals == <<_factors, _scalings, _aliases, _switch, kwargs_order>>

vars == <<globals, call, ret>>

(***************************************************************************)
(* The registries (conversions.py, lines 1320-1467)                        *)
(***************************************************************************)

\* basic units: key -> (factor or converter class, SI base units)
_factors_ ==
    {
      \* 'm'
      [key |-> <<"m">>, cls |-> "float", n |-> 1, d |-> 1, e |-> 0, sym |-> "", si |-> <<"m">>],
      \* 'A'
      [key |-> <<"A">>, cls |-> "float", n |-> 1, d |-> 1, e |-> -10, sym |-> "", si |-> <<"m">>],
      \* 'AU'
      [key |-> <<"A", "U">>, cls |-> "float", n |-> 1, d |-> 1, e |-> 0, sym |-> "au", si |-> <<"m">>],
      \* 'pc'
      [key |-> <<"p", "c">>, cls |-> "float", n |-> 1, d |-> 1, e |-> 0, sym |-> "pc", si |-> <<"m">>],
      \* 'ly'
      [key |-> <<"l", "y">>, cls |-> "float", n |-> 1, d |-> 1, e |-> 0, sym |-> "ly", si |-> <<"m">>],
      \* 'Rsol'
      [key |-> <<"R", "s", "o", "l">>, cls |-> "float", n |-> 1, d |-> 1, e |-> 0, sym |-> "Rsol", si |-> <<"m">>],
      \* 'Rearth'
      [key |-> <<"R", "e", "a", "r", "t", "h">>, cls |-> "float", n |-> 1, d |-> 1, e |-> 0, sym |-> "Rearth", si |-> <<"m">>],
      \* 'ft'
      [key |-> <<"f", "t">>, cls |-> "float", n |-> 3048, d |-> 1, e |-> -4, sym |-> "", si |-> <<"m">>],
      \* 'in'
      [key |-> <<"i", "n">>, cls |-> "float", n |-> 254, d |-> 1, e |-> -4, sym |-> "", si |-> <<"m">>],
      \* 'mi'
      [key |-> <<"m", "i">>, cls |-> "float", n |-> 1609344, d |-> 1, e |-> -3, sym |-> "", si |-> <<"m">>],
      \* 'a0'
      [key |-> <<"a", "0">>, cls |-> "float", n |-> 1, d |-> 1, e |-> 0, sym |-> "a0", si |-> <<"m">>],
      \* 'ell'
      [key |-> <<"e", "l", "l">>, cls |-> "float", n |-> 1143, d |-> 1, e |-> -3, sym |-> "", si |-> <<"m">>],
      \* 'yd'
      [key |-> <<"y", "d">>, cls |-> "float", n |-> 9144, d |-> 1, e |-> -4, sym |-> "", si |-> <<"m">>],
      \* 'g'
      [key |-> <<"g">>, cls |-> "float", n |-> 1, d |-> 1, e |-> -3, sym |-> "", si |-> <<"k", "g">>],
      \* 'Msol'
      [key |-> <<"M", "s", "o", "l">>, cls |-> "float", n |-> 1, d |-> 1, e |-> 0, sym |-> "Msol", si |-> <<"k", "g">>],
      \* 'Mearth'
      [key |-> <<"M", "e", "a", "r", "t", "h">>, cls |-> "float", n |-> 1, d |-> 1, e |-> 0, sym |-> "Mearth", si |-> <<"k", "g">>],
      \* 'Mjup'
      [key |-> <<"M", "j", "u", "p">>, cls |-> "float", n |-> 1, d |-> 1, e |-> 0, sym |-> "Mjup", si |-> <<"k", "g">>],
      \* 'Mlun'
      [key |-> <<"M", "l", "u", "n">>, cls |-> "float", n |-> 1, d |-> 1, e |-> 0, sym |-> "Mlun", si |-> <<"k", "g">>],
      \* 'lbs'
      [key |-> <<"l", "b", "s">>, cls |-> "float", n |-> 45359237, d |-> 1, e |-> -8, sym |-> "", si |-> <<"k", "g">>],
      \* 'st'
      [key |-> <<"s", "t">>, cls |-> "float", n |-> 635029318, d |-> 1, e |-> -8, sym |-> "", si |-> <<"k", "g">>],
      \* 's'
      [key |-> <<"s">>, cls |-> "float", n |-> 1, d |-> 1, e |-> 0, sym |-> "", si |-> <<"s">>],
      \* 'min'
      [key |-> <<"m", "i", "n">>, cls |-> "float", n |-> 60, d |-> 1, e |-> 0, sym |-> "", si |-> <<"s">>],
      \* 'h'
      [key |-> <<"h">>, cls |-> "float", n |-> 3600, d |-> 1, e |-> 0, sym |-> "", si |-> <<"s">>],
      \* 'd'
      [key |-> <<"d">>, cls |-> "float", n |-> 24 * 3600, d |-> 1, e |-> 0, sym |-> "", si |-> <<"s">>],
      \* 'wk'
      [key |-> <<"w", "k">>, cls |-> "float", n |-> 7 * 24 * 3600, d |-> 1, e |-> 0, sym |-> "", si |-> <<"s">>],
      \* 'mo'
      [key |-> <<"m", "o">>, cls |-> "float", n |-> 30 * 7 * 24 * 3600, d |-> 1, e |-> 0, sym |-> "", si |-> <<"s">>],
      \* 'sidereal'
      [key |-> <<"s", "i", "d", "e", "r", "e", "a", "l">>, cls |-> "float", n |-> 1, d |-> 1, e |-> 0, sym |-> "sidereal", si |-> <<>>],
      \* 'yr'
      [key |-> <<"y", "r">>, cls |-> "float", n |-> 365 * 24 * 3600, d |-> 1, e |-> 0, sym |-> "", si |-> <<"s">>],
      \* 'cr'
      [key |-> <<"c", "r">>, cls |-> "float", n |-> 365 * 24 * 3600, d |-> 1, e |-> 2, sym |-> "", si |-> <<"s">>],
      \* 'hz'
      [key |-> <<"h", "z">>, cls |-> "float", n |-> 1, d |-> 1, e |-> 0, sym |-> "", si |-> <<"c", "y", " ", "s", "-", "1">>],
      \* 'JD'
      [key |-> <<"J", "D">>, cls |-> "float", n |-> 1, d |-> 1, e |-> 0, sym |-> "", si |-> <<"J", "D">>],
      \* 'CD'
      [key |-> <<"C", "D">>, cls |-> "JulianDay", n |-> 1, d |-> 1, e |-> 0, sym |-> "", si |-> <<"J", "D">>],
      \* 'MJD'
      [key |-> <<"M", "J", "D">>, cls |-> "ModJulianDay", n |-> 1, d |-> 1, e |-> 0, sym |-> "", si |-> <<"J", "D">>],
      \* 'j'
      [key |-> <<"j">>, cls |-> "float", n |-> 1, d |-> 60, e |-> 0, sym |-> "", si |-> <<"s">>],
      \* 'rad'
      [key |-> <<"r", "a", "d">>, cls |-> "float", n |-> 1, d |-> 1, e |-> 0, sym |-> "", si |-> <<"r", "a", "d">>],
      \* 'cy'
      [key |-> <<"c", "y">>, cls |-> "float", n |-> 1, d |-> 1, e |-> 0, sym |-> "", si |-> <<"c", "y">>],
      \* 'deg'
      [key |-> <<"d", "e", "g">>, cls |-> "float", n |-> 1, d |-> 180, e |-> 0, sym |-> "pi", si |-> <<"r", "a", "d">>],
      \* 'am'
      [key |-> <<"a", "m">>, cls |-> "float", n |-> 1, d |-> 180 * 60, e |-> 0, sym |-> "pi", si |-> <<"r", "a", "d">>],
      \* 'as'
      [key |-> <<"a", "s">>, cls |-> "float", n |-> 1, d |-> 180 * 3600, e |-> 0, sym |-> "pi", si |-> <<"r", "a", "d">>],
      \* 'sr'
      [key |-> <<"s", "r">>, cls |-> "float", n |-> 1, d |-> 1, e |-> 0, sym |-> "", si |-> <<"r", "a", "d", "2">>],
      \* 'rpm'
      [key |-> <<"r", "p", "m">>, cls |-> "float", n |-> 104719755, d |-> 1, e |-> -9, sym |-> "", si |-> <<"r", "a", "d", "/", "s">>],
      \* 'complex_coord'
      [key |-> <<"c", "o", "m", "p", "l", "e", "x", "_", "c", "o", "o", "r", "d">>, cls |-> "float", n |-> 1, d |-> 1, e |-> 0, sym |-> "", si |-> <<"c", "o", "m", "p", "l", "e", "x", "_", "c", "o", "o", "r", "d">>],
      \* 'equ'
      [key |-> <<"e", "q", "u">>, cls |-> "EquCoords", n |-> 1, d |-> 1, e |-> 0, sym |-> "", si |-> <<"c", "o", "m", "p", "l", "e", "x", "_", "c", "o", "o", "r", "d">>],
      \* 'gal'
      [key |-> <<"g", "a", "l">>, cls |-> "GalCoords", n |-> 1, d |-> 1, e |-> 0, sym |-> "", si |-> <<"c", "o", "m", "p", "l", "e", "x", "_", "c", "o", "o", "r", "d">>],
      \* 'ecl'
      [key |-> <<"e", "c", "l">>, cls |-> "EclCoords", n |-> 1, d |-> 1, e |-> 0, sym |-> "", si |-> <<"c", "o", "m", "p", "l", "e", "x", "_", "c", "o", "o", "r", "d">>],
      \* 'N'
      [key |-> <<"N">>, cls |-> "float", n |-> 1, d |-> 1, e |-> 0, sym |-> "", si |-> <<"k", "g", " ", "m", " ", "s", "-", "2">>],
      \* 'dyn'
      [key |-> <<"d", "y", "n">>, cls |-> "float", n |-> 1, d |-> 1, e |-> -5, sym |-> "", si |-> <<"k", "g", " ", "m", " ", "s", "-", "2">>],
      \* 'K'
      [key |-> <<"K">>, cls |-> "float", n |-> 1, d |-> 1, e |-> 0, sym |-> "", si |-> <<"K">>],
      \* 'F'
      [key |-> <<"F">>, cls |-> "Fahrenheit", n |-> 1, d |-> 1, e |-> 0, sym |-> "", si |-> <<"K">>],
      \* 'C'
      [key |-> <<"C">>, cls |-> "Celcius", n |-> 1, d |-> 1, e |-> 0, sym |-> "", si |-> <<"K">>],
      \* 'J'
      [key |-> <<"J">>, cls |-> "float", n |-> 1, d |-> 1, e |-> 0, sym |-> "", si |-> <<"k", "g", " ", "m", "2", " ", "s", "-", "2">>],
      \* 'W'
      [key |-> <<"W">>, cls |-> "float", n |-> 1, d |-> 1, e |-> 0, sym |-> "", si |-> <<"k", "g", " ", "m", "2", " ", "s", "-", "3">>],
      \* 'erg'
      [key |-> <<"e", "r", "g">>, cls |-> "float", n |-> 1, d |-> 1, e |-> -7, sym |-> "", si |-> <<"k", "g", " ", "m", "2", " ", "s", "-", "2">>],
      \* 'eV'
      [key |-> <<"e", "V">>, cls |-> "float", n |-> 160217646, d |-> 1, e |-> -27, sym |-> "", si |-> <<"k", "g", " ", "m", "2", " ", "s", "-", "2">>],
      \* 'cal'
      [key |-> <<"c", "a", "l">>, cls |-> "float", n |-> 41868, d |-> 1, e |-> -4, sym |-> "", si |-> <<"k", "g", " ", "m", "2", " ", "s", "-", "2">>],
      \* 'Lsol'
      [key |-> <<"L", "s", "o", "l">>, cls |-> "float", n |-> 1, d |-> 1, e |-> 0, sym |-> "Lsol", si |-> <<"k", "g", " ", "m", "2", " ", "s", "-", "3">>],
      \* 'Pa'
      [key |-> <<"P", "a">>, cls |-> "float", n |-> 1, d |-> 1, e |-> 0, sym |-> "", si |-> <<"k", "g", " ", "m", "-", "1", " ", "s", "-", "2">>],
      \* 'bar'
      [key |-> <<"b", "a", "r">>, cls |-> "float", n |-> 1, d |-> 1, e |-> 5, sym |-> "", si |-> <<"k", "g", " ", "m", "-", "1", " ", "s", "-", "2">>],
      \* 'at'
      [key |-> <<"a", "t">>, cls |-> "float", n |-> 980665, d |-> 1, e |-> -1, sym |-> "", si |-> <<"k", "g", " ", "m", "-", "1", " ", "s", "-", "2">>],
      \* 'atm'
      [key |-> <<"a", "t", "m">>, cls |-> "float", n |-> 101325, d |-> 1, e |-> 0, sym |-> "", si |-> <<"k", "g", " ", "m", "-", "1", " ", "s", "-", "2">>],
      \* 'torr'
      [key |-> <<"t", "o", "r", "r">>, cls |-> "float", n |-> 133322, d |-> 1, e |-> -3, sym |-> "", si |-> <<"k", "g", " ", "m", "-", "1", " ", "s", "-", "2">>],
      \* 'psi'
      [key |-> <<"p", "s", "i">>, cls |-> "float", n |-> 6894, d |-> 1, e |-> 0, sym |-> "", si |-> <<"k", "g", " ", "m", "-", "1", " ", "s", "-", "2">>],
      \* 'ac'
      [key |-> <<"a", "c">>, cls |-> "float", n |-> 1, d |-> 1, e |-> 0, sym |-> "acre", si |-> <<"m", "2">>],
      \* 'a'
      [key |-> <<"a">>, cls |-> "float", n |-> 100, d |-> 1, e |-> 0, sym |-> "", si |-> <<"m", "2">>],
      \* 'Jy'
      [key |-> <<"J", "y">>, cls |-> "float", n |-> 1, d |-> 1, e |-> -26, sym |-> "", si |-> <<"k", "g", " ", "s", "-", "2", " ", "c", "y", "-", "1">>],
      \* 'vegamag'
      [key |-> <<"v", "e", "g", "a", "m", "a", "g">>, cls |-> "VegaMag", n |-> 1, d |-> 1, e |-> 0, sym |-> "", si |-> <<"k", "g", " ", "m", "-", "1", " ", "s", "-", "3">>],
      \* 'mag'
      [key |-> <<"m", "a", "g">>, cls |-> "VegaMag", n |-> 1, d |-> 1, e |-> 0, sym |-> "", si |-> <<"k", "g", " ", "m", "-", "1", " ", "s", "-", "3">>],
      \* 'STmag'
      [key |-> <<"S", "T", "m", "a", "g">>, cls |-> "STMag", n |-> 1, d |-> 1, e |-> 0, sym |-> "", si |-> <<"k", "g", " ", "m", "-", "1", " ", "s", "-", "3">>],
      \* 'ABmag'
      [key |-> <<"A", "B", "m", "a", "g">>, cls |-> "ABMag", n |-> 1, d |-> 1, e |-> 0, sym |-> "", si |-> <<"k", "g", " ", "s", "-", "2", " ", "c", "y", "-", "1">>],
      \* 'mag_color'
      [key |-> <<"m", "a", "g", "_", "c", "o", "l", "o", "r">>, cls |-> "Color", n |-> 1, d |-> 1, e |-> 0, sym |-> "", si |-> <<"f", "l", "u", "x", "_", "r", "a", "t", "i", "o">>],
      \* 'flux_ratio'
      [key |-> <<"f", "l", "u", "x", "_", "r", "a", "t", "i", "o">>, cls |-> "float", n |-> 1, d |-> 1, e |-> 0, sym |-> "", si |-> <<"f", "l", "u", "x", "_", "r", "a", "t", "i", "o">>],
      \* 'ampl'
      [key |-> <<"a", "m", "p", "l">>, cls |-> "float", n |-> 1, d |-> 1, e |-> 0, sym |-> "", si |-> <<"a", "m", "p", "l">>],
      \* 'Amag'
      [key |-> <<"A", "m", "a", "g">>, cls |-> "AmplMag", n |-> 1, d |-> 1, e |-> 0, sym |-> "", si |-> <<"a", "m", "p", "l">>],
      \* 'pph'
      [key |-> <<"p", "p", "h">>, cls |-> "float", n |-> 1, d |-> 1, e |-> -2, sym |-> "", si |-> <<"a", "m", "p", "l">>],
      \* 'ppt'
      [key |-> <<"p", "p", "t">>, cls |-> "float", n |-> 1, d |-> 1, e |-> -3, sym |-> "", si |-> <<"a", "m", "p", "l">>],
      \* 'ppm'
      [key |-> <<"p", "p", "m">>, cls |-> "float", n |-> 1, d |-> 1, e |-> -6, sym |-> "", si |-> <<"a", "m", "p", "l">>]
    }

\* scaling factors for prefixes, in the order the source lists them
_scalings_ ==
    <<
      [key |-> <<"y">>, exp |-> -24],
      [key |-> <<"z">>, exp |-> -21],
      [key |-> <<"a">>, exp |-> -18],
      [key |-> <<"f">>, exp |-> -15],
      [key |-> <<"p">>, exp |-> -12],
      [key |-> <<"n">>, exp |-> -9],
      [key |-> <<"m", "u">>, exp |-> -6],
      [key |-> <<"m">>, exp |-> -3],
      [key |-> <<"c">>, exp |-> -2],
      [key |-> <<"d">>, exp |-> -1],
      [key |-> <<"d", "a">>, exp |-> 1],
      [key |-> <<"h">>, exp |-> 2],
      [key |-> <<"k">>, exp |-> 3],
      [key |-> <<"M">>, exp |-> 6],
      [key |-> <<"G">>, exp |-> 9],
      [key |-> <<"T">>, exp |-> 12],
      [key |-> <<"P">>, exp |-> 15],
      [key |-> <<"E">>, exp |-> 18],
      [key |-> <<"Z">>, exp |-> 21],
      [key |-> <<"Y">>, exp |-> 24]
    >>

\* for scale in _scalings: a dict iterates in hash order, which the source
\* does not fix; 'd' and 'da' are the only two keys one of which begins the
\* other, so their relative order is all a call can observe
_scalings_iter ==
    { _scalings_,
      [i \in 1..Len(_scalings_) |->
          IF i = 10 THEN _scalings_[11] ELSE IF i = 11 THEN _scalings_[10] ELSE _scalings_[i]] }

\* some common aliases, in order
_aliases_ ==
    <<
      <<<<"m", "i", "c", "r", "o", "n">>, <<"m", "u", "m">>>>,
      <<<<"a", "u">>, <<"A", "U">>>>,
      <<<<"m", "i", "c", "r", "o">>, <<"m", "u">>>>,
      <<<<"m", "i", "l", "l", "i">>, <<"m">>>>,
      <<<<"k", "i", "l", "o">>, <<"k">>>>,
      <<<<"m", "e", "g", "a">>, <<"M">>>>,
      <<<<"g", "i", "g", "a">>, <<"G">>>>,
      <<<<"n", "a", "n", "o">>, <<"n">>>>,
      <<<<"w", "a", "t", "t">>, <<"W">>>>,
      <<<<"W", "a", "t", "t">>, <<"W">>>>,
      <<<<"H", "z">>, <<"h", "z">>>>,
      <<<<"j", "o", "u", "l", "e">>, <<"J">>>>,
      <<<<"J", "o", "u", "l", "e">>, <<"J">>>>,
      <<<<"j", "a", "n", "s", "k", "y">>, <<"J", "y">>>>,
      <<<<"J", "a", "n", "s", "k", "y">>, <<"J", "y">>>>,
      <<<<"j", "y">>, <<"J", "y">>>>,
      <<<<"a", "r", "c", "s", "e", "c">>, <<"a", "s">>>>,
      <<<<"a", "r", "c", "m", "i", "n">>, <<"a", "m">>>>,
      <<<<"c", "y", "c", "l", "e", "s">>, <<"c", "y">>>>,
      <<<<"c", "y", "c", "l", "e">>, <<"c", "y">>>>,
      <<<<"c", "y", "c">>, <<"c", "y">>>>,
      <<<<"a", "n", "g", "s", "t", "r", "o", "m">>, <<"A">>>>,
      <<<<"A", "n", "g", "s", "t", "r", "o", "m">>, <<"A">>>>,
      <<<<"i", "n", "c", "h">>, <<"i", "n">>>>,
      <<<<"^">>, <<>>>>,
      <<<<"*", "*">>, <<>>>>,
      <<<<"g", "a", "l", "a", "c", "t", "i", "c">>, <<"g", "a", "l">>>>,
      <<<<"e", "q", "u", "a", "t", "o", "r", "i", "a", "l">>, <<"e", "q", "u">>>>,
      <<<<"e", "c", "l", "i", "p", "t", "i", "c">>, <<"e", "c", "l">>>>,
      <<<<"V", "e", "g", "a", "m", "a", "g">>, <<"v", "e", "g", "a", "m", "a", "g">>>>
    >>

\* change-of-base function definitions
_switch_ ==
    {
      [key |-> <<"s", "1", "_", "t", "o", "_">>, fn |-> "distance2velocity"],
      [key |-> <<"s", "-", "1", "_", "t", "o", "_">>, fn |-> "velocity2distance"],
      [key |-> <<"c", "y", "-", "1", "m", "1", "_", "t", "o", "_">>, fn |-> "distance2spatialfreq"],
      [key |-> <<"c", "y", "1", "m", "-", "1", "_", "t", "o", "_">>, fn |-> "spatialfreq2distance"],
      [key |-> <<"c", "y", "-", "1", "m", "1", "s", "1", "_", "t", "o", "_">>, fn |-> "fnu2flambda"],
      [key |-> <<"c", "y", "1", "m", "-", "1", "s", "-", "1", "_", "t", "o", "_">>, fn |-> "flambda2fnu"],
      [key |-> <<"c", "y", "-", "1", "s", "1", "_", "t", "o", "_">>, fn |-> "fnu2nufnu"],
      [key |-> <<"c", "y", "1", "s", "-", "1", "_", "t", "o", "_">>, fn |-> "nufnu2fnu"],
      [key |-> <<"m", "1", "_", "t", "o", "_">>, fn |-> "lamflam2flam"],
      [key |-> <<"m", "-", "1", "_", "t", "o", "_">>, fn |-> "flam2lamflam"],
      [key |-> <<"r", "a", "d", "2", "_", "t", "o", "_">>, fn |-> "per_sr"],
      [key |-> <<"r", "a", "d", "-", "2", "_", "t", "o", "_">>, fn |-> "times_sr"],
      [key |-> <<"r", "a", "d", "1", "_", "t", "o", "_">>, fn |-> "per_cy"],
      [key |-> <<"r", "a", "d", "-", "1", "_", "t", "o", "_">>, fn |-> "times_cy"]
    }

\* the entries of _factors under the key basis: one or none
FactorsAt(basis) ==
    {r \in _factors : r.key = basis}

\* basis in _factors
InFactors(basis) ==
    FactorsAt(basis) # {}

\* _factors[basis][0] of a float entry
FactorOf(row) ==
    Norm(row.n, row.d, row.e, [s \in {row.sym} \ {""} |-> 1])

InSwitch(key) ==
    \E r \in _switch : r.key = key

SwitchAt(key) ==
    (CHOOSE r \in _switch : r.key = key).fn

(***************************************************************************)
(* Factors: a Python float, or an instance of a NonLinearConverter class   *)
(* (conversions.py, lines 1064-1084)                                       *)
(***************************************************************************)

Float(a) ==
    [cls |-> "float", prefix |-> a, power |-> 1]

\* NonLinearConverter.__init__(self, prefix=1., power=1.)
NonLinearConverter(cls, prefix, power) ==
    [cls |-> cls, prefix |-> prefix, power |-> power]

PyNone == [cls |-> "NoneType", prefix |-> One, power |-> 1]

IsFloat(f) ==
    f.cls = "float"

\* isinstance(f, NonLinearConverter)
IsNonLinear(f) ==
    f.cls \notin {"float", "NoneType"}

\* an outcome: exc = "" and a value, or the exception raised
Ok(v) ==
    [exc |-> "", msg |-> "", val |-> v]

Raise(exc, msg) ==
    [exc |-> exc, msg |-> msg, val |-> <<>>]

\* Then([r \in {o} |-> e]) is what the outcome o raised if it raised, and
\* otherwise e for r = o, the value of which is r.val
Then(f) ==
    With([r \in DOMAIN f |-> IF r.exc # "" THEN Raise(r.exc, r.msg) ELSE f[r]])

\* a * b: float * float; float * instance goes to __rmul__, which returns a
\* new instance with the scaled prefix and the default power; instance *
\* float finds no __mul__ and is a TypeError; instance * instance goes to
\* __rmul__, whose type test fails, so that it returns None
PyMul(a, b) ==
    IF IsFloat(a) /\ IsFloat(b) THEN Ok(Float(Mul(a.prefix, b.prefix)))
    ELSE IF IsFloat(a) /\ IsNonLinear(b) THEN Ok(NonLinearConverter(b.cls, Mul(b.prefix, a.prefix), 1))
    ELSE IF IsNonLinear(b) THEN Ok(PyNone)
    ELSE Raise("TypeError", "unsupported operand type(s) for *")

\* a ** k for an int k: __pow__ adds k to the power of an instance
PyPow(a, k) ==
    IF IsFloat(a) THEN Ok(Float(PowNum(a.prefix, k)))
    ELSE IF IsNonLinear(a) THEN Ok(NonLinearConverter(a.cls, a.prefix, a.power + k))
    ELSE Raise("TypeError", "unsupported operand type(s) for **")

(***************************************************************************)
(* Parsing                                                                 *)
(***************************************************************************)

\* the length of the run of digits of s that starts at position i
RECURSIVE DigitRun(_, _)
DigitRun(s, i) ==
    IF i > Len(s) THEN 0
    ELSE IF ~IsDigit(s[i]) THEN 0
    ELSE 1 + DigitRun(s, i + 1)

\* (-{0,1}\d+) matches at position p of s
ReMatchAt(s, p) ==
    /\ p <= Len(s)
    /\ IF IsDigit(s[p]) THEN TRUE
       ELSE s[p] = "-" /\ p + 1 <= Len(s) /\ IsDigit(s[p + 1])

\* re.search(r'(\d*)(.+?)(-{0,1}\d+)', s): the leftmost match; \d* is
\* greedy, .+? lazy, the sign and the digits of the power greedy.
\* [ok, factor, basis, power]
ReUnit(s) ==
    \* the match starts at the first i after which a power can start, a basis
    \* of one character at least lying in between
    With([starts \in {{i \in 1..Len(s) : \E p \in (i + 1)..Len(s) : ReMatchAt(s, p)}} |->
    IF starts = {} THEN [ok |-> FALSE, factor |-> <<>>, basis |-> <<>>, power |-> 0]
    ELSE With([i \in {Min(starts)} |->
         \* as many digits k as leave a basis and a power
         With([k \in {Max({k \in 0..DigitRun(s, i) :
                      \E p \in (i + k + 1)..Len(s) : ReMatchAt(s, p)})} |->
         \* the power starts at p, its digits at q
         With([p \in {Min({p \in (i + k + 1)..Len(s) : ReMatchAt(s, p)})} |->
         With([q \in {IF s[p] = "-" THEN p + 1 ELSE p} |->
         With([digits \in {ParseInt(SubSeq(s, q, q + DigitRun(s, q) - 1))} |->
         [ok |-> TRUE,
          factor |-> SubSeq(s, i, i + k - 1),
          basis |-> SubSeq(s, i + k, p - 1),
          power |-> IF q > p THEN -digits ELSE digits]])])])])])])

RECURSIVE ApplyAliases(_, _, _)
\* for alias in aliases: unit = unit.replace(alias[0], alias[1]), from the
\* alias at place first on; an alias that does not occur changes nothing
ApplyAliases(unit, aliases, first) ==
    With([found \in {{i \in first..Len(aliases) : Contains(unit, aliases[i][1])}} |->
    IF found = {} THEN unit
    ELSE ApplyAliases(Replace(unit, aliases[Min(found)][1], aliases[Min(found)][2]),
                      aliases, Min(found) + 1)])

\* one part after a '/' with the power it has
AfterDiv_kept(part) ==
    With([after_div \in {IF ~IsDigit(part[Len(part)]) THEN part \o <<"1">> ELSE part} |->
    With([m \in {ReUnit(after_div)} |->
    IF ~m.ok THEN after_div \o <<"1">>
    ELSE IF m.factor = <<>> THEN m.basis \o IntToStr(m.power)
    ELSE IntToStr(ParseInt(m.factor)) \o m.basis \o IntToStr(m.power)])])

\* one part after a '/': its power negated, its integer factor put back
AfterDiv(part) ==
    With([after_div \in {IF ~IsDigit(part[Len(part)]) THEN part \o <<"1">> ELSE part} |->
    With([m \in {ReUnit(after_div)} |->
    IF ~m.ok THEN after_div \o <<"-", "1">>
    ELSE IF m.factor = <<>> THEN m.basis \o IntToStr(-m.power)
    ELSE IF ParseInt(m.factor) = 1 THEN m.basis \o IntToStr(-m.power)
    ELSE IntToStr(ParseInt(m.factor)) \o m.basis \o IntToStr(-m.power)])])

\* one uni of unit_ with every part after the first rewritten
DivGroup(uni) ==
    [j \in 1..Len(uni) |-> IF j = 1 THEN uni[1] ELSE AfterDiv(uni[j])]

RECURSIVE Ravel(_)
Ravel(groups) ==
    IF groups = <<>> THEN <<>> ELSE groups[1] \o Ravel(Tail(groups))

\* solve_aliases(unit): resolves aliases and replaces division signs with
\* negative powers; after_div[-1] of an empty part is an IndexError
solve_aliases(unit) ==
    With([u \in {ApplyAliases(unit, _aliases, 1)} |->
    IF ~Contains(u, <<"/">>) THEN Ok(u)
    ELSE With([unis \in {Split(u)} |->
         With([unit_ \in {[i \in 1..Len(unis) |-> SplitOn(unis[i], "/")]} |->
         IF \E i \in 1..Len(unit_) : \E j \in 2..Len(unit_[i]) : unit_[i][j] = <<>>
         THEN Raise("IndexError", "string index out of range")
         ELSE Ok(Join(Ravel([i \in 1..Len(unit_) |-> DivGroup(unit_[i])]), <<" ">>))])])])

\* '\d\d[-+]\d\d' matches unit[:5]
SciPlain(unit) ==
    /\ Len(unit) >= 5
    /\ IsDigit(unit[1]) /\ IsDigit(unit[2])
    /\ unit[3] \in {"-", "+"}
    /\ IsDigit(unit[4]) /\ IsDigit(unit[5])

\* '\d\d[[eE][-+]\d\d' matches unit[:6]
SciE(unit) ==
    /\ Len(unit) >= 6
    /\ IsDigit(unit[1]) /\ IsDigit(unit[2])
    /\ unit[3] \in {"[", "e", "E"}
    /\ unit[4] \in {"-", "+"}
    /\ IsDigit(unit[5]) /\ IsDigit(unit[6])

\* float(mantissa) ** (float(sign + '1') * float(exponent))
SciFactor(mant, sign, expo) ==
    PowNum(Int2Num(ParseInt(mant)), IF sign = "-" THEN -ParseInt(expo) ELSE ParseInt(expo))

\* for scale in _scalings: the place of the first scale that splits basis
\* into a prefix and a known unit, basis not being a unit itself; 0 if none
ScaleOf(basis) ==
    IF InFactors(basis) THEN 0
    ELSE With([hits \in {{i \in 1..Len(_scalings) :
                  /\ StartsWith(basis, _scalings[i].key)
                  /\ InFactors(SubSeq(basis, Len(_scalings[i].key) + 1, Len(basis)))}} |->
         IF hits = {} THEN 0 ELSE Min(hits)])

\* components(unit) up to the loop over _scalings: the prefactors of the
\* forms '10-14' and '10e-14' and the regular expression give the factor,
\* the basis and the power
Decompose(unit) ==
    With([m1 \in {SciPlain(unit)} |->
    With([f1 \in {IF m1 THEN SciFactor(SubSeq(unit, 1, 2), unit[3], SubSeq(unit, 4, 5)) ELSE One} |->
    With([u1 \in {IF m1 THEN SubSeq(unit, 6, Len(unit)) ELSE unit} |->
    With([m2 \in {SciE(u1)} |->
    With([f2 \in {IF m2 THEN Mul(f1, SciFactor(SubSeq(u1, 1, 2), u1[4], SubSeq(u1, 5, 6))) ELSE f1} |->
    With([u2 \in {IF m2 THEN SubSeq(u1, 7, Len(u1)) ELSE u1} |->
    IF u2 = <<>> THEN Raise("IndexError", "string index out of range")
    ELSE With([u3 \in {IF ~IsDigit(u2[Len(u2)]) THEN u2 \o <<"1">> ELSE u2} |->
         With([m \in {ReUnit(u3)} |->
         Ok([factor |-> IF ~m.ok THEN One
                        ELSE IF m.factor = <<>> THEN f2
                        ELSE Mul(f2, Int2Num(ParseInt(m.factor))),
             basis |-> IF m.ok THEN m.basis ELSE u3,
             power |-> IF m.ok THEN m.power ELSE 1])])])])])])])])])

\* components with a factor of 1 and the basis itself for a basis that is
\* not in _factors
components_default(unit) ==
    Then([p \in {Decompose(unit)} |->
    With([scale \in {ScaleOf(p.val.basis)} |->
    With([factor \in {IF scale = 0 THEN p.val.factor ELSE Mul(p.val.factor, Dec(1, _scalings[scale].exp))} |->
    With([rows \in {FactorsAt(IF scale = 0 THEN p.val.basis
                   ELSE SubSeq(p.val.basis, Len(_scalings[scale].key) + 1, Len(p.val.basis)))} |->
    IF rows = {} THEN Ok([factor |-> Float(factor), basis |-> p.val.basis, power |-> p.val.power])
    ELSE With([row \in {CHOOSE row \in rows : TRUE} |->
         Ok([factor |-> IF row.cls # "float" THEN NonLinearConverter(row.cls, factor, 1)
                        ELSE Float(Mul(factor, FactorOf(row))),
             basis |-> row.si, power |-> p.val.power])])])])])])

\* components(unit): decompose a unit into a factor, SI base unit, power
components(unit) ==
    Then([p \in {Decompose(unit)} |->
    With([scale \in {ScaleOf(p.val.basis)} |->
    With([factor \in {IF scale = 0 THEN p.val.factor ELSE Mul(p.val.factor, Dec(1, _scalings[scale].exp))} |->
    With([rows \in {FactorsAt(IF scale = 0 THEN p.val.basis
                   ELSE SubSeq(p.val.basis, Len(_scalings[scale].key) + 1, Len(p.val.basis)))} |->
    IF rows = {} THEN Raise("ValueError", "Unknown unit")
    ELSE With([row \in {CHOOSE row \in rows : TRUE} |->
         \* a class is callable: factor * Class() is an instance with prefix factor
         Ok([factor |-> IF row.cls # "float" THEN NonLinearConverter(row.cls, factor, 1)
                        ELSE Float(Mul(factor, FactorOf(row))),
             basis |-> row.si, power |-> p.val.power])])])])])])

\* for base in basis: factor_, basis_, power_ = components(base), for every
\* base of one unit, or what the first failing components(base) raised
BasesOf(basis) ==
    With([cs \in {[j \in 1..Len(basis) |-> components(basis[j])]} |->
    With([bad \in {{j \in 1..Len(basis) : cs[j].exc # ""}} |->
    IF bad # {} THEN cs[Min(bad)]
    ELSE Ok([j \in 1..Len(basis) |-> [basis |-> cs[j].val.basis, power |-> cs[j].val.power]])])])

\* breakdown, the loop over the SI bases of one unit: total_units and
\* total_power afterwards
RECURSIVE BreakBases(_, _, _)
BreakBases(bases, power, total) ==
    IF bases = <<>> THEN total
    ELSE IF \E i \in 1..Len(total.units) : total.units[i] = bases[1].basis
    THEN BreakBases(Tail(bases), power,
                    [total EXCEPT !.powers[Min({i \in 1..Len(total.units) : total.units[i] = bases[1].basis})] =
                                      @ + bases[1].power * power])
    ELSE BreakBases(Tail(bases), power,
                    [units |-> Append(total.units, bases[1].basis),
                     powers |-> Append(total.powers, bases[1].power * power)])

\* breakdown, one unit of the loop over the units, c being what
\* components(unit) came to: factor ** power and the components of the bases
BreakUnitOf(c) ==
    IF c.exc # "" THEN c
    ELSE IF PyPow(c.val.factor, c.val.power).exc # "" THEN PyPow(c.val.factor, c.val.power)
    ELSE Ok([factor |-> PyPow(c.val.factor, c.val.power).val, power |-> c.val.power,
             bases |-> BasesOf(Split(c.val.basis))])

BreakUnit(unit) ==
    BreakUnitOf(components(unit))

\* breakdown, the loop over the units from the i-th on: total_factor,
\* total_units and total_power afterwards, or what the first failing step
\* raised
RECURSIVE BreakUnits(_, _, _, _)
BreakUnits(i, units, total_factor, total) ==
    IF i > Len(units)
    THEN Ok([factor |-> total_factor, units |-> total.units, powers |-> total.powers])
    ELSE IF units[i].exc # "" THEN units[i]
    ELSE IF PyMul(total_factor, units[i].val.factor).exc # ""
    THEN PyMul(total_factor, units[i].val.factor)
    ELSE IF units[i].val.bases.exc # "" THEN units[i].val.bases
    ELSE BreakUnits(i + 1, units, PyMul(total_factor, units[i].val.factor).val,
                    BreakBases(units[i].val.bases.val, units[i].val.power, total))

\* the positions of all the bases, those of total power 0 too
Kept_all(powers) ==
    [i \in 1..Len(powers) |-> i]

\* if j != 0: the positions of the bases whose total power is kept
Kept(powers) ==
    SelectSeq([i \in 1..Len(powers) |-> i], LAMBDA i : powers[i] # 0)

\* breakdown, the end: make sure to return a sorted version
Signature(b) ==
    IF b.exc # "" THEN b
    ELSE Ok([factor |-> b.val.factor,
             sig |-> Join(Sorted([k \in 1..Len(Kept(b.val.powers)) |->
                                     b.val.units[Kept(b.val.powers)[k]]
                                     \o IntToStr(b.val.powers[Kept(b.val.powers)[k]])]),
                          <<" ">>)])

\* breakdown of the unit without its aliases: break down in basic units
BreakAll(a) ==
    IF a.exc # "" THEN a
    ELSE Signature(BreakUnits(1, [i \in 1..Len(Split(a.val)) |-> BreakUnit(Split(a.val)[i])],
                              Float(One), [units |-> <<>>, powers |-> <<>>]))

\* breakdown(unit): decompose a unit into SI base units containing powers;
\* the result is (total_factor, signature)
breakdown(unit) ==
    BreakAll(solve_aliases(unit))

(***************************************************************************)
(* Values: a Python float, or a number with an uncertainty of the          *)
(* uncertainties package, whose standard deviation propagates linearly     *)
(***************************************************************************)

\* a float
V(nom) ==
    [nom |-> nom, std |-> Zero, shape |-> "float"]

\* unumpy.uarray([nom, std])
uarray(nom, std) ==
    [nom |-> nom, std |-> std, shape |-> "ufloat"]

ShapeOf(a, b) ==
    IF a.shape = "ufloat" \/ b.shape = "ufloat" THEN "ufloat" ELSE "float"

VMul(a, b) ==
    [nom |-> Mul(a.nom, b.nom),
     std |-> Hypot(Mul(Abs(b.nom), a.std), Mul(Abs(a.nom), b.std)),
     shape |-> ShapeOf(a, b)]

VDiv(a, b) ==
    [nom |-> Div(a.nom, b.nom),
     std |-> Hypot(Div(a.std, Abs(b.nom)),
                   Div(Mul(Abs(a.nom), b.std), Mul(b.nom, b.nom))),
     shape |-> ShapeOf(a, b)]

VAdd(a, b) ==
    [nom |-> Add(a.nom, b.nom), std |-> Hypot(a.std, b.std), shape |-> ShapeOf(a, b)]

VSub(a, b) ==
    [nom |-> Sub(a.nom, b.nom), std |-> Hypot(a.std, b.std), shape |-> ShapeOf(a, b)]

\* a ** k for an int k >= 1
VPow(a, k) ==
    [nom |-> PowNum(a.nom, k),
     std |-> Mul(Abs(Mul(Int2Num(k), PowNum(a.nom, k - 1))), a.std),
     shape |-> a.shape]

\* 10 ** a
VPow10(a) ==
    [nom |-> Pow10(a.nom),
     std |-> IF a.std = Zero THEN Zero
             ELSE Mul(Mul(Sym("ln10"), Abs(Pow10(a.nom))), a.std),
     shape |-> a.shape]

\* log10(a)
VLog10(a) ==
    [nom |-> Log10(a.nom),
     std |-> IF a.std = Zero THEN Zero
             ELSE Div(a.std, Mul(Sym("ln10"), Abs(a.nom))),
     shape |-> a.shape]

\* the model represents every number of the value
Representable(v) ==
    IF v.shape = "date" THEN TRUE ELSE ~IsUnrep(v.nom) /\ ~IsUnrep(v.std)

\* fac * value for a factor fac: an instance on the left of a float finds no
\* __mul__, and None has none either
FMulV(fac, v) ==
    IF IsFloat(fac) THEN Ok(VMul(V(fac.prefix), v))
    ELSE Raise("TypeError", "unsupported operand type(s) for *")

(***************************************************************************)
(* Keyword arguments: a function from the keys given to entries.  An entry *)
(* of a call is a tuple (value, unit) or (value, error, unit), a float, a  *)
(* string, a bool or None; an entry in SI is a value, a string, a bool or  *)
(* None                                                                    *)
(***************************************************************************)

Tuple2(val, unit) ==
    [kind |-> "tuple2", val |-> val, err |-> Zero, s |-> unit, b |-> FALSE]

Tuple3(val, err, unit) ==
    [kind |-> "tuple3", val |-> val, err |-> err, s |-> unit, b |-> FALSE]

KwFloat(val) ==
    [kind |-> "float", val |-> val, err |-> Zero, s |-> <<>>, b |-> FALSE]

KwStr(str) ==
    [kind |-> "str", val |-> Zero, err |-> Zero, s |-> str, b |-> FALSE]

KwBool(b) ==
    [kind |-> "bool", val |-> Zero, err |-> Zero, s |-> <<>>, b |-> b]

SINum(v) ==
    [kind |-> "num", v |-> v, s |-> <<>>, b |-> FALSE]

SIStr(str) ==
    [kind |-> "str", v |-> V(Zero), s |-> str, b |-> FALSE]

SIBool(b) ==
    [kind |-> "bool", v |-> V(Zero), s |-> <<>>, b |-> b]

NoKwargs == <<>>

\* kwargs[key] = entry
SetKw(kw, key, entry) ==
    (key :> entry) @@ kw

\* kwargs.pop(key)
DelKw(kw, key) ==
    [k \in (DOMAIN kw) \ {key} |-> kw[k]]

(***************************************************************************)
(* ivs.sed.filters                                                         *)
(***************************************************************************)

\* str.upper()
Upper(str) ==
    [i \in 1..Len(str) |->
        With([o \in {Ord(str[i])} |->
        IF o >= 97 /\ o <= 122 THEN Ascii[o - 32 - 31] ELSE str[i]])]

\* the response curves in the directory filters/: the passband and the
\* average wavelength (in angstrom) weighted with its response
response_files ==
    { [photband |-> <<"J","O","H","N","S","O","N",".","V">>, eff_wave |-> Dec(55, 2)],
      [photband |-> <<"2","M","A","S","S",".","J">>, eff_wave |-> Dec(12412, 0)] }

\* the rows of zeropoints.dat: photband, vegamag, ABmag, STmag, Flam0 and
\* Flam0_units
zeropoints ==
    { [photband |-> <<"J","O","H","N","S","O","N",".","V">>,
       vegamag |-> Zero, ABmag |-> Zero, STmag |-> Zero,
       Flam0 |-> Dec(1, -9), Flam0_units |-> <<"e","r","g","/","s","/","c","m","2","/","A">>],
      [photband |-> <<"J","O","H","N","S","O","N",".","B">>,
       vegamag |-> Dec(25, -1), ABmag |-> NaN, STmag |-> NaN,
       Flam0 |-> Dec(1, -8), Flam0_units |-> <<"e","r","g","/","s","/","c","m","2","/","A">>],
      [photband |-> <<"G","E","N","E","V","A",".","V">>,
       vegamag |-> NaN, ABmag |-> Dec(25, -1), STmag |-> Dec(-25, -1),
       Flam0 |-> Dec(1, -9), Flam0_units |-> <<"e","r","g","/","s","/","c","m","2","/","A">>],
      [photband |-> <<"S","T","R","O","M","G","R","E","N",".","U">>,
       vegamag |-> Zero, ABmag |-> NaN, STmag |-> NaN,
       Flam0 |-> Dec(1, -8), Flam0_units |-> <<"e","r","g","/","s","/","c","m","2","/","A">>],
      [photband |-> <<"S","T","R","O","M","G","R","E","N",".","B">>,
       vegamag |-> Dec(25, -1), ABmag |-> NaN, STmag |-> NaN,
       Flam0 |-> Dec(1, -9), Flam0_units |-> <<"e","r","g","/","s","/","c","m","2","/","A">>],
      [photband |-> <<"S","T","R","O","M","G","R","E","N",".","V">>,
       vegamag |-> Zero, ABmag |-> NaN, STmag |-> NaN,
       Flam0 |-> Dec(1, -9), Flam0_units |-> <<"e","r","g","/","s","/","c","m","2","/","A">>],
      [photband |-> <<"S","T","R","O","M","G","R","E","N",".","Y">>,
       vegamag |-> Zero, ABmag |-> NaN, STmag |-> NaN,
       Flam0 |-> Dec(1, -10), Flam0_units |-> <<"e","r","g","/","s","/","c","m","2","/","A">>] }

\* get_response(photband): OPEN.BOL is built in, any other passband is read
\* from its file, which raises IOError if there is none
get_response(photband) ==
    With([band \in {Upper(photband)} |->
    IF band = <<"O","P","E","N",".","B","O","L">> THEN Ok(Sym("openbol"))
    ELSE With([files \in {{r \in response_files : r.photband = band}} |->
         IF files = {} THEN Raise("IOError", "No such file or directory")
         ELSE Ok((CHOOSE r \in files : TRUE).eff_wave)])])

\* eff_wave(photband) of a single passband, without a model: the average of
\* the wavelengths weighted with the response; except IOError: np.nan
eff_wave(photband) ==
    With([r \in {get_response(photband)} |->
    IF r.exc = "IOError" THEN NaN ELSE r.val])

\* get_info(): all the rows
get_info ==
    zeropoints

(***************************************************************************)
(* Switch functions (conversions.py, lines 640-972)                        *)
(***************************************************************************)

RECURSIVE convert(_, _, _, _)

cc == Sym("cc")

TwoPi == Norm(2, 1, 0, Sym("pi").x)

HasKey(kw, key) ==
    key \in DOMAIN kw

\* arithmetic on an entry that is a string, a bool or None is a TypeError
NotNum(kw, key) ==
    kw[key].kind # "num"

BadOperand ==
    Raise("TypeError", "unsupported operand type(s)")

\* if 'photband' in kwargs: lameff = filters.eff_wave(kwargs['photband']);
\* lameff = convert('A','m',lameff); kwargs['wave'] = lameff
PhotbandWave(kw) ==
    IF ~HasKey(kw, "photband") THEN Ok(kw)
    ELSE IF kw["photband"].kind # "str" THEN Raise("TypeError", "object is not iterable")
    ELSE Then([lameff \in {convert(<<"A">>, <<"m">>, <<V(eff_wave(kw["photband"].s))>>, NoKwargs)} |-> Ok(SetKw(kw, "wave", SINum(lameff.val)))])

distance2velocity(arg, kwargs) ==
    IF HasKey(kwargs, "wave")
    THEN IF NotNum(kwargs, "wave") THEN BadOperand
         ELSE LET wave == kwargs["wave"].v
              IN  Ok(VMul(VDiv(VSub(arg, wave), wave), V(cc)))
    ELSE Raise("ValueError", "reference wavelength (wave) not given")

velocity2distance(arg, kwargs) ==
    IF HasKey(kwargs, "wave")
    THEN IF NotNum(kwargs, "wave") THEN BadOperand
         ELSE LET wave == kwargs["wave"].v
              IN  Ok(VAdd(VMul(VDiv(wave, V(cc)), arg), wave))
    ELSE Raise("ValueError", "reference wavelength (wave) not given")

\* the reference of the functions that take wave, freq or photband: the
\* wavelength if there is one, else the frequency
WaveOrFreq(kwargs) ==
    Then([kw \in {PhotbandWave(kwargs)} |->
    IF HasKey(kw.val, "wave")
    THEN IF NotNum(kw.val, "wave") THEN BadOperand ELSE Ok([wave |-> kw.val["wave"].v])
    ELSE IF HasKey(kw.val, "freq")
    THEN IF NotNum(kw.val, "freq") THEN BadOperand ELSE Ok([freq |-> kw.val["freq"].v])
    ELSE Raise("ValueError", "reference wave/freq not given")])

fnu2flambda(arg, kwargs) ==
    Then([ref \in {WaveOrFreq(kwargs)} |->
    IF HasKey(ref.val, "wave")
    THEN Ok(VMul(VDiv(V(cc), VPow(ref.val.wave, 2)), arg))
    ELSE Ok(VMul(VDiv(VPow(ref.val.freq, 2), V(cc)), arg))])

flambda2fnu(arg, kwargs) ==
    Then([ref \in {WaveOrFreq(kwargs)} |->
    IF HasKey(ref.val, "wave")
    THEN Ok(VMul(VDiv(VPow(ref.val.wave, 2), V(cc)), arg))
    ELSE Ok(VMul(VDiv(V(cc), VPow(ref.val.freq, 2)), arg))])

fnu2nufnu(arg, kwargs) ==
    Then([ref \in {WaveOrFreq(kwargs)} |->
    IF HasKey(ref.val, "wave")
    THEN Ok(VMul(VDiv(V(cc), ref.val.wave), arg))
    ELSE Ok(VMul(ref.val.freq, arg))])

nufnu2fnu(arg, kwargs) ==
    Then([ref \in {WaveOrFreq(kwargs)} |->
    IF HasKey(ref.val, "wave")
    THEN Ok(VMul(VDiv(ref.val.wave, V(cc)), arg))
    ELSE Ok(VDiv(arg, ref.val.freq))])

flam2lamflam(arg, kwargs) ==
    Then([ref \in {WaveOrFreq(kwargs)} |->
    IF HasKey(ref.val, "wave")
    THEN Ok(VMul(ref.val.wave, arg))
    ELSE Ok(VMul(VDiv(V(cc), ref.val.freq), arg))])

lamflam2flam(arg, kwargs) ==
    Then([ref \in {WaveOrFreq(kwargs)} |->
    IF HasKey(ref.val, "wave")
    THEN Ok(VDiv(arg, ref.val.wave))
    ELSE Ok(VDiv(arg, VDiv(V(cc), ref.val.freq)))])

distance2spatialfreq(arg, kwargs) ==
    Then([ref \in {WaveOrFreq(kwargs)} |->
    IF HasKey(ref.val, "wave")
    THEN Ok(VDiv(VMul(V(TwoPi), arg), ref.val.wave))
    ELSE Ok(VDiv(VMul(V(TwoPi), arg), VDiv(V(cc), ref.val.freq)))])

spatialfreq2distance(arg, kwargs) ==
    Then([ref \in {WaveOrFreq(kwargs)} |->
    IF HasKey(ref.val, "wave")
    THEN Ok(VDiv(VMul(ref.val.wave, arg), V(TwoPi)))
    ELSE Ok(VDiv(VMul(VDiv(V(cc), ref.val.freq), arg), V(TwoPi)))])

\* the surface of per_sr and times_sr, from ang_diam, radius or pix
Surface(kwargs) ==
    IF HasKey(kwargs, "ang_diam")
    THEN IF NotNum(kwargs, "ang_diam") THEN BadOperand
         ELSE Ok(VMul(V(Sym("pi")), VPow(VDiv(kwargs["ang_diam"].v, V(Int2Num(2))), 2)))
    ELSE IF HasKey(kwargs, "radius")
    THEN IF NotNum(kwargs, "radius") THEN BadOperand
         ELSE Ok(VMul(V(Sym("pi")), VPow(kwargs["radius"].v, 2)))
    ELSE IF HasKey(kwargs, "pix")
    THEN IF NotNum(kwargs, "pix") THEN BadOperand
         ELSE Ok(VPow(kwargs["pix"].v, 2))
    ELSE Raise("ValueError", "angular size (ang_diam/radius) not given")

per_sr(arg, kwargs) ==
    Then([surface \in {Surface(kwargs)} |-> Ok(VDiv(arg, surface.val))])

times_sr(arg, kwargs) ==
    Then([surface \in {Surface(kwargs)} |-> Ok(VMul(arg, surface.val))])

per_cy(arg, kwargs) ==
    Ok(VDiv(arg, V(TwoPi)))

times_cy(arg, kwargs) ==
    Ok(VMul(V(TwoPi), arg))

\* _switch[key](arg, **kwargs)
CallSwitch(fn, arg, kwargs) ==
    CASE fn = "distance2velocity" -> distance2velocity(arg, kwargs)
      [] fn = "velocity2distance" -> velocity2distance(arg, kwargs)
      [] fn = "distance2spatialfreq" -> distance2spatialfreq(arg, kwargs)
      [] fn = "spatialfreq2distance" -> spatialfreq2distance(arg, kwargs)
      [] fn = "fnu2flambda" -> fnu2flambda(arg, kwargs)
      [] fn = "flambda2fnu" -> flambda2fnu(arg, kwargs)
      [] fn = "fnu2nufnu" -> fnu2nufnu(arg, kwargs)
      [] fn = "nufnu2fnu" -> nufnu2fnu(arg, kwargs)
      [] fn = "lamflam2flam" -> lamflam2flam(arg, kwargs)
      [] fn = "flam2lamflam" -> flam2lamflam(arg, kwargs)
      [] fn = "per_sr" -> per_sr(arg, kwargs)
      [] fn = "times_sr" -> times_sr(arg, kwargs)
      [] fn = "per_cy" -> per_cy(arg, kwargs)
      [] fn = "times_cy" -> times_cy(arg, kwargs)

(***************************************************************************)
(* Nonlinear converters (conversions.py, lines 1086-1316)                  *)
(***************************************************************************)

VNeg(a) ==
    VMul(V(Int2Num(-1)), a)

Mag25 == V(Dec(25, -1))

\* Fahrenheit.__call__(self, a, inv=False)
Fahrenheit(self, a, inv) ==
    IF ~inv
    THEN Ok(VDiv(VMul(VAdd(VMul(a, V(self.prefix)), V(Dec(45967, -2))), V(Int2Num(5))),
                 V(Int2Num(9))))
    ELSE Ok(VDiv(VSub(VDiv(VMul(a, V(Int2Num(9))), V(Int2Num(5))), V(Dec(45967, -2))),
                 V(self.prefix)))

\* Celcius.__call__(self, a, inv=False)
Celcius(self, a, inv) ==
    IF ~inv
    THEN Ok(VAdd(VMul(a, V(self.prefix)), V(Dec(27315, -2))))
    ELSE Ok(VDiv(VSub(a, V(Dec(27315, -2))), V(self.prefix)))

\* AmplMag.__call__(self, meas, inv=False)
AmplMag(self, meas, inv) ==
    IF ~inv
    THEN Ok(VSub(VPow10(VDiv(VMul(meas, V(self.prefix)), Mag25)), V(One)))
    ELSE Ok(VDiv(VMul(Mag25, VLog10(VAdd(V(One), meas))), V(self.prefix)))

Mag == <<"m","a","g">>

SI == <<"S","I">>

Wm3 == <<"W","/","m","3">>

\* zp['photband'] == photband.upper(): None and numbers have no upper()
NoUpper(kwargs) ==
    ~HasKey(kwargs, "photband") \/ kwargs["photband"].kind # "str"

Match(kwargs) ==
    {r \in get_info : r.photband = Upper(kwargs["photband"].s)}

NoCalibrations ==
    Raise("ValueError", "No calibrations")

NoAttribute ==
    Raise("AttributeError", "object has no attribute")

\* VegaMag.__call__(self, meas, photband=None, inv=False, **kwargs)
VegaMag(self, meas, inv, kwargs) ==
    IF NoUpper(kwargs) THEN NoAttribute
    ELSE With([match \in {Match(kwargs)} |->
         IF match = {} THEN NoCalibrations
         ELSE With([row \in {CHOOSE r \in match : TRUE} |->
              Then([F0 \in {convert(row.Flam0_units, Wm3, <<V(row.Flam0)>>, NoKwargs)} |->
              With([mag0 \in {V(row.vegamag)} |->
              IF ~inv
              THEN Ok(VMul(VPow10(VDiv(VNeg(VSub(meas, mag0)), Mag25)), F0.val))
              ELSE Ok(VAdd(VMul(VNeg(Mag25), VLog10(VDiv(meas, F0.val))), mag0))])])])])

\* ABMag.__call__(self, meas, photband=None, inv=False, **kwargs)
ABMag(self, meas, inv, kwargs) ==
    IF NoUpper(kwargs) THEN NoAttribute
    ELSE With([match \in {Match(kwargs)} |->
         IF match = {} THEN NoCalibrations
         ELSE With([row \in {CHOOSE r \in match : TRUE} |->
              With([F0 \in {V(Sym("F0AB"))} |->
              With([mag0 \in {IF IsNaN(row.ABmag) THEN V(Zero) ELSE V(row.ABmag)} |->
              IF ~inv
              THEN Ok(VMul(VPow10(VDiv(VNeg(VSub(meas, mag0)), Mag25)), F0))
              ELSE Ok(VMul(VNeg(Mag25), VLog10(VDiv(meas, F0))))])])])])

\* STMag.__call__(self, meas, photband=None, inv=False, **kwargs)
STMag(self, meas, inv, kwargs) ==
    IF NoUpper(kwargs) THEN NoAttribute
    ELSE With([match \in {Match(kwargs)} |->
         IF match = {} THEN NoCalibrations
         ELSE With([row \in {CHOOSE r \in match : TRUE} |->
              With([F0 \in {V(Sym("F0ST"))} |->
              With([mag0 \in {IF IsNaN(row.STmag) THEN V(Zero) ELSE V(row.STmag)} |->
              IF ~inv
              THEN Ok(VMul(VPow10(VDiv(VNeg(VSub(meas, mag0)), VNeg(Mag25))), F0))
              ELSE Ok(VMul(VNeg(Mag25), VLog10(VDiv(meas, F0))))])])])])

Stromgren(band) ==
    <<"S","T","R","O","M","G","R","E","N",".">> \o <<band>>

\* convert(_from, _to, meas, photband=photband, unpack=False)
ColorTerm(_from, _to, meas, photband) ==
    convert(_from, _to, <<meas>>, ("photband" :> KwStr(photband)) @@ ("unpack" :> KwBool(FALSE)))

\* convert(_from, _to, value, photband=photband)
ColorRef(_from, _to, value, photband) ==
    convert(_from, _to, <<V(value)>>, "photband" :> KwStr(photband))

\* the first of the outcomes that raised, or the three values
Three(a, b, c) ==
    Then([x \in {a} |-> Then([y \in {b} |-> Then([z \in {c} |-> Ok(<<x.val, y.val, z.val>>)])])])

\* Color.__call__(self, meas, photband=None, inv=False, **kwargs)
Color(self, meas, inv, kwargs) ==
    IF NoUpper(kwargs) THEN NoAttribute
    ELSE With([photband \in {kwargs["photband"].s} |->
         With([parts \in {SplitOn(photband, ".")} |->
         IF Len(parts) # 2 THEN Raise("ValueError", "values to unpack")
         ELSE With([system \in {parts[1]} |->
              With([band \in {parts[2]} |->
              With([bands \in {SplitOn(band, "-")} |->
              IF Len(bands) > 2 THEN Raise("ValueError", "values to unpack")
              ELSE IF Len(bands) = 2 /\ ~inv
              THEN Then([m \in {Three(ColorTerm(Mag, SI, meas, system \o <<".">> \o bands[1]),
                         ColorRef(Mag, SI, Zero, system \o <<".">> \o bands[2]), Ok(V(One)))} |->
                   Ok(VDiv(m.val[1], m.val[2]))])
              ELSE IF Len(bands) = 2
              THEN Then([m \in {Three(ColorTerm(Wm3, Mag, meas, system \o <<".">> \o bands[1]),
                         ColorRef(Wm3, Mag, One, system \o <<".">> \o bands[2]), Ok(V(One)))} |->
                   Ok(VSub(m.val[1], m.val[2]))])
              ELSE IF photband = Stromgren("C") \o <<"1">> /\ ~inv
              THEN Then([m \in {Three(ColorTerm(Mag, SI, meas, Stromgren("U")),
                         ColorRef(Mag, SI, Zero, Stromgren("B")),
                         ColorRef(Mag, SI, Zero, Stromgren("V")))} |->
                   Ok(VDiv(VMul(m.val[1], m.val[2]), VPow(m.val[3], 2)))])
              ELSE IF photband = Stromgren("C") \o <<"1">>
              THEN Then([m \in {Three(ColorTerm(Wm3, Mag, meas, Stromgren("U")),
                         ColorRef(Wm3, Mag, One, Stromgren("B")),
                         ColorRef(Wm3, Mag, One, Stromgren("V")))} |->
                   Ok(VAdd(VSub(m.val[1], VMul(V(Int2Num(2)), m.val[3])), m.val[2]))])
              ELSE IF photband = Stromgren("M") \o <<"1">> /\ ~inv
              THEN Then([m \in {Three(ColorTerm(Mag, SI, meas, Stromgren("V")),
                         ColorRef(Mag, SI, Zero, Stromgren("Y")),
                         ColorRef(Mag, SI, Zero, Stromgren("B")))} |->
                   Ok(VDiv(VMul(m.val[1], m.val[2]), VPow(m.val[3], 2)))])
              ELSE IF photband = Stromgren("M") \o <<"1">>
              \* return mv-2*mb+my: the name my is not defined
              THEN Then([m \in {Three(ColorTerm(Wm3, Mag, meas, Stromgren("V")),
                         ColorRef(Wm3, Mag, One, Stromgren("Y")),
                         ColorRef(Wm3, Mag, One, Stromgren("B")))} |->
                   Raise("NameError", "global name 'my' is not defined")])
              ELSE Raise("ValueError", "No color calibrations")])])])])])

\* a result this model does not represent: a calendar date, a coordinate
Other ==
    [nom |-> Unrep, std |-> Zero, shape |-> "float"]

\* the whole number an integer stands for
ToInt(a) ==
    a.n * Pow(10, a.e)

\* a calendar date (year, month, day), the day given in quarters of a day
CalendarDate(year, month, quarters) ==
    [nom |-> <<Int2Num(year), Int2Num(month), Norm(quarters, 4, 0, NoSyms)>>,
     std |-> Zero, shape |-> "date"]

\* JulianDay.__call__, inv=True: the calendar date of the Julian date
\* quarters/4; L, day and quarters count quarters of a day, so that
\* 4*L//146097 is L \div 146097
DateOf(quarters) ==
    LET L_1 == quarters + 4 * 68569
        N == L_1 \div 146097
        L_2 == L_1 - 4 * ((146097 * N + 3) \div 4)
        I == (1000 * (L_2 + 4)) \div 1461001
        L_3 == L_2 - 4 * ((1461 * I) \div 4) + 4 * 31
        J == (20 * L_3) \div 2447
        day == L_3 - 4 * ((2447 * J) \div 80) + 2
        L_4 == J \div 11
        month == J + 2 - 12 * L_4
        year == 100 * (N - 49) + I + L_4
    IN  CalendarDate(year, month, day)

\* JulianDay.__call__, inv=False: the Julian date, in quarters of a day, of
\* the calendar date (year, month, day), day counting quarters of a day
DayOf(year, month, day) ==
    LET a == (14 - month) \div 12
        y == year + 4800 - a
        m == month + 12 * a - 3
        jd == day + 4 * (((153 * m + 2) \div 5) + 365 * y + (y \div 4) - (y \div 100)
                         + (y \div 400) - 32045)
    IN  jd - 2

\* JulianDay.__call__(self, meas, inv=False, **kwargs): a float has no
\* meas[:3]; the inverse returns the calendar date (year, month, day), which
\* this model represents for the quarters of a day
JulianDay(self, meas, inv, kwargs) ==
    IF inv
    THEN IF meas.shape = "float" /\ IsInteger(Mul(meas.nom, Int2Num(4)))
         THEN Ok(DateOf(ToInt(Mul(meas.nom, Int2Num(4)))))
         ELSE Ok(Other)
    ELSE IF meas.shape # "date" THEN Raise("TypeError", "object is unsubscriptable")
    ELSE Ok(V(Norm(DayOf(ToInt(meas.nom[1]), ToInt(meas.nom[2]),
                         ToInt(Mul(meas.nom[3], Int2Num(4)))), 4, 0, NoSyms)))

ZP ==
    { [jtype |-> <<"C","O","R","O","T">>, zp |-> Dec(2451545, 0)],
      [jtype |-> <<"H","I","P">>, zp |-> Dec(244, 4)],
      [jtype |-> <<"M","J","D">>, zp |-> Dec(24000005, -1)] }

\* ModJulianDay.__call__ that looks up the jtype as it is written
ModJulianDay_as_written(self, meas, inv, kwargs) ==
    IF HasKey(kwargs, "jtype") /\ kwargs["jtype"].kind # "str" THEN NoAttribute
    ELSE With([jtype \in {IF HasKey(kwargs, "jtype") THEN kwargs["jtype"].s ELSE <<"M","J","D">>} |->
         With([rows \in {{r \in ZP : r.jtype = jtype}} |->
         IF rows = {} THEN Raise("KeyError", "jtype")
         ELSE With([zp \in {V((CHOOSE r \in rows : TRUE).zp)} |->
              IF inv THEN Ok(VSub(meas, zp)) ELSE Ok(VAdd(meas, zp))])])])

\* ModJulianDay.__call__(self, meas, inv=False, jtype='MJD')
ModJulianDay(self, meas, inv, kwargs) ==
    IF HasKey(kwargs, "jtype") /\ kwargs["jtype"].kind # "str" THEN NoAttribute
    ELSE With([jtype \in {IF HasKey(kwargs, "jtype") THEN Upper(kwargs["jtype"].s) ELSE <<"M","J","D">>} |->
         With([rows \in {{r \in ZP : r.jtype = jtype}} |->
         IF rows = {} THEN Raise("KeyError", "jtype")
         ELSE With([zp \in {V((CHOOSE r \in rows : TRUE).zp)} |->
              IF inv THEN Ok(VSub(meas, zp)) ELSE Ok(VAdd(meas, zp))])])])

\* GalCoords, EquCoords, EclCoords.__call__(self, mycoord, inv=False,
\* epoch='2000'): x,y = mycoord does not unpack a float; the inverse returns
\* a pair of angles
Coords(self, mycoord, inv, kwargs) ==
    IF ~inv THEN Raise("TypeError", "object is not iterable") ELSE Ok(Other)

\* the keywords the __call__ of the class accepts besides inv
Accepts(cls) ==
    CASE cls \in {"Fahrenheit", "Celcius", "AmplMag"} -> {}
      [] cls = "ModJulianDay" -> {"jtype"}
      [] cls \in {"GalCoords", "EquCoords", "EclCoords"} -> {"epoch"}
      [] OTHER -> {"wave", "freq", "photband", "ang_diam", "radius", "pix", "jtype", "epoch"}

\* fac(a, inv=inv, **kwargs) for an instance fac of a converter class
CallNonLinear(fac, a, inv, kwargs) ==
    IF ~((DOMAIN kwargs) \subseteq Accepts(fac.cls))
    THEN Raise("TypeError", "__call__() got an unexpected keyword argument")
    ELSE CASE fac.cls = "Fahrenheit" -> Fahrenheit(fac, a, inv)
           [] fac.cls = "Celcius" -> Celcius(fac, a, inv)
           [] fac.cls = "AmplMag" -> AmplMag(fac, a, inv)
           [] fac.cls = "VegaMag" -> VegaMag(fac, a, inv, kwargs)
           [] fac.cls = "ABMag" -> ABMag(fac, a, inv, kwargs)
           [] fac.cls = "STMag" -> STMag(fac, a, inv, kwargs)
           [] fac.cls = "Color" -> Color(fac, a, inv, kwargs)
           [] fac.cls = "JulianDay" -> JulianDay(fac, a, inv, kwargs)
           [] fac.cls = "ModJulianDay" -> ModJulianDay(fac, a, inv, kwargs)
           [] OTHER -> Coords(fac, a, inv, kwargs)

(***************************************************************************)
(* convert (conversions.py, lines 74-429)                                  *)
(***************************************************************************)

\* re.search(r'\[(.*)\]', s): from the first '[' to the last ']' after it
Brackets(s) ==
    With([opens \in {{i \in 1..Len(s) : s[i] = "["}} |->
    With([closes \in {{j \in 1..Len(s) : s[j] = "]"}} |->
    IF \E i \in opens : \E j \in closes : i < j
    THEN [found |-> TRUE, inner |-> SubSeq(s, Min(opens) + 1, Max(closes) - 1)]
    ELSE [found |-> FALSE, inner |-> s]])])

\* the keys a call can give, in the one or the other order of iteration
KwKeys ==
    <<"wave", "freq", "photband", "ang_diam", "radius", "pix", "jtype", "epoch">>

KwIter(kwargs) ==
    SelectSeq(IF kwargs_order = "fwd" THEN KwKeys ELSE [i \in 1..8 |-> KwKeys[9 - i]],
              LAMBDA k : k \in DOMAIN kwargs)

\* one entry converted to SI: a tuple is (value, unit) or (value, error, unit)
EntrySI(entry) ==
    IF entry.kind \in {"tuple2", "tuple3"}
    THEN Then([b \in {breakdown(entry.s)} |->
         Then([kwarg_value \in {FMulV(b.val.factor, IF entry.kind = "tuple2" THEN V(entry.val)
                              ELSE uarray(entry.val, entry.err))} |-> Ok(SINum(kwarg_value.val))])])
    ELSE IF entry.kind = "float" THEN Ok(SINum(V(entry.val)))
    ELSE IF entry.kind = "str" THEN Ok(SIStr(entry.s))
    ELSE Ok(SIBool(entry.b))

RECURSIVE KwargsLoop(_, _, _)
\* for key in kwargs: kwargs_SI[key] = ...
KwargsLoop(kwargs, keys, kwargs_SI) ==
    IF keys = <<>> THEN Ok(kwargs_SI)
    ELSE Then([e \in {EntrySI(kwargs[keys[1]])} |->
         KwargsLoop(kwargs, Tail(keys), SetKw(kwargs_SI, keys[1], e.val))])

\* add some default values if necessary: the input value serves for wave or
\* for freq unless the call gave a wave
DefaultContext(fac_from, uni_from, uni_to, start_value, kwargs_SI) ==
    With([key \in {IF uni_from = uni_to THEN ""
         ELSE IF HasKey(kwargs_SI, "wave") THEN ""
         ELSE IF uni_from = <<"m", "1">> THEN "wave"
         ELSE IF uni_from = <<"c", "y", "1", " ", "s", "-", "1">> THEN "freq"
         ELSE ""} |->
    IF key = "" THEN Ok(kwargs_SI)
    ELSE Then([value \in {FMulV(fac_from, start_value)} |->
         Ok(SetKw(kwargs_SI, key, SINum(value.val)))])])

\* '%s%d' of the basis and the power of every token of a signature, the
\* power multiplied by sign
TokensOf(toks, signs) ==
    IF \E i \in 1..Len(toks) : components(toks[i]).exc # ""
    THEN components(toks[Min({i \in 1..Len(toks) : components(toks[i]).exc # ""})])
    ELSE Ok([i \in 1..Len(toks) |->
                components(toks[i]).val.basis \o IntToStr(signs[i] * components(toks[i]).val.power)])

\* sorted(list(set(a) - set(b))), for lists without repetitions
OnlyIn(a, b) ==
    Sorted(SelectSeq(a, LAMBDA t : \A i \in 1..Len(b) : b[i] # t))

LeftOverJoined(left_over) ==
    IF left_over.exc # "" THEN left_over
    ELSE Ok(Join(Split(left_over.val.sig), <<>>))

LeftOverOf(n, toks) ==
    IF toks.exc # "" THEN toks
    ELSE LeftOverJoined(breakdown(Join(SubSeq(toks.val, 1, n), <<" ">>) \o <<" ">> \o
                                  Join(SubSeq(toks.val, n + 1, Len(toks.val)), <<" ">>)))

\* the signature tokens that differ, pushed to the left side, broken down
\* and joined without blanks
LeftOver(uni_from, uni_to) ==
    LeftOverOf(Len(OnlyIn(Split(uni_from), Split(uni_to))),
               TokensOf(OnlyIn(Split(uni_from), Split(uni_to)) \o OnlyIn(Split(uni_to), Split(uni_from)),
                        [i \in 1..(Len(Split(uni_from)) + Len(Split(uni_to))) |->
                            IF i <= Len(OnlyIn(Split(uni_from), Split(uni_to))) THEN 1 ELSE -1]))

\* the first of rad2, rad-2, rad1, rad-1 found in only_from, or <<>>
RadKey(only_from) ==
    IF Contains(only_from, <<"r","a","d","2">>) THEN <<"r","a","d","2">>
    ELSE IF Contains(only_from, <<"r","a","d","-","2">>) THEN <<"r","a","d","-","2">>
    ELSE IF Contains(only_from, <<"r","a","d","1">>) THEN <<"r","a","d","1">>
    ELSE IF Contains(only_from, <<"r","a","d","-","1">>) THEN <<"r","a","d","-","1">>
    ELSE <<>>

To_ == <<"_", "t", "o", "_">>

\* fac_from(start_value, **kwargs_SI) of a nonlinear converter, or
\* fac_from * start_value
Times(fac_from, start_value, kwargs_SI) ==
    IF IsNonLinear(fac_from) THEN CallNonLinear(fac_from, start_value, FALSE, kwargs_SI)
    ELSE FMulV(fac_from, start_value)

\* _switch[key](fac_from * start_value, **kwargs_SI), a being the product
DispatchSwitch(fn, a, kwargs_SI) ==
    IF a.exc # "" THEN a ELSE CallSwitch(fn, a.val, kwargs_SI)

\* what is left over skipped when it is not in _switch
DispatchLeft_skip(fac_from, only_from, start_value, kwargs_SI) ==
    IF only_from = <<>> THEN Ok(start_value)
    ELSE IF ~InSwitch(only_from \o To_) THEN Times(fac_from, start_value, kwargs_SI)
    ELSE DispatchSwitch(SwitchAt(only_from \o To_), Times(fac_from, start_value, kwargs_SI),
                        kwargs_SI)

\* then we do what is left over: the look-up in _switch comes before the
\* factor is applied and its KeyError is raised again
DispatchLeft(fac_from, only_from, start_value, kwargs_SI) ==
    IF only_from = <<>> THEN Ok(start_value)
    ELSE IF ~InSwitch(only_from \o To_) THEN Raise("KeyError", "no definition in dict _switch")
    ELSE DispatchSwitch(SwitchAt(only_from \o To_), Times(fac_from, start_value, kwargs_SI),
                        kwargs_SI)

\* start_value = fac_from * start_value, fac_from = 1. after the (ste)radians
DispatchRadTimes(only_from, p, kwargs_SI) ==
    IF p.exc # "" THEN p ELSE DispatchLeft(Float(One), only_from, p.val, kwargs_SI)

\* the factor of the source unit applied once more to what the switch
\* function of the (ste)radians came to
DispatchRad_twice(rad, fac_from, only_from, r, kwargs_SI) ==
    IF r.exc # "" THEN r
    ELSE Then([p \in {FMulV(fac_from, r.val)} |->
         DispatchLeft(fac_from, Replace(only_from, rad, <<>>), p.val, kwargs_SI)])

\* r is what the switch function of the (ste)radians came to
DispatchRad(rad, fac_from, only_from, r, kwargs_SI) ==
    IF r.exc # "" THEN r
    ELSE DispatchRadTimes(Replace(only_from, rad, <<>>), FMulV(fac_from, r.val), kwargs_SI)

\* first we remove any differences concerning (ste)radians, then we do what
\* is left over
Dispatch(fac_from, only_from, start_value, kwargs_SI) ==
    IF RadKey(only_from) = <<>> THEN DispatchLeft(fac_from, only_from, start_value, kwargs_SI)
    ELSE DispatchRad(RadKey(only_from), fac_from, only_from,
                     CallSwitch(SwitchAt(RadKey(only_from) \o To_), start_value, kwargs_SI),
                     kwargs_SI)

\* the value in SI units of units of different signatures, only_from being
\* what is left over of them
ToSIOf(fac_from, only_from, start_value, kwargs_SI) ==
    IF only_from.exc # "" THEN only_from
    ELSE Dispatch(fac_from, only_from.val, start_value, kwargs_SI)

\* the value in SI units, lines 342-407
ToSI(fac_from, uni_from, uni_to, start_value, kwargs_SI) ==
    IF uni_from = uni_to THEN Times(fac_from, start_value, kwargs_SI)
    ELSE ToSIOf(fac_from, LeftOver(uni_from, uni_to), start_value, kwargs_SI)

\* the final step multiplying by the factor of the target unit
FromSI_times(fac_to, ret_value, kwargs_SI) ==
    IF IsNonLinear(fac_to) THEN CallNonLinear(fac_to, ret_value, TRUE, kwargs_SI)
    ELSE IF IsFloat(fac_to) THEN Ok(VMul(ret_value, V(fac_to.prefix)))
    ELSE Raise("TypeError", "unsupported operand type(s) for /=")

\* final step: convert to ..., lines 408-413
FromSI(fac_to, ret_value, kwargs_SI) ==
    IF IsNonLinear(fac_to) THEN CallNonLinear(fac_to, ret_value, TRUE, kwargs_SI)
    ELSE IF IsFloat(fac_to) THEN Ok(VDiv(ret_value, V(fac_to.prefix)))
    ELSE Raise("TypeError", "unsupported operand type(s) for /=")

\* unpack the uncertainties: the tuple (nominal value, standard deviation)
Unpack(ret_value, unpack, nargs) ==
    IF unpack /\ (nargs = 2 \/ (nargs = 1 /\ ret_value.shape = "ufloat"))
    THEN [ret_value EXCEPT !.shape = "tuple"]
    ELSE ret_value

\* convert, lines 415-429: the logarithm of the result if the target unit
\* is in brackets, and the unpacking
ConvertUnpack(m_out, ret_value, unpack, nargs) ==
    IF ret_value.exc # "" THEN ret_value
    ELSE Ok(Unpack(IF m_out.found THEN VLog10(ret_value.val) ELSE ret_value.val, unpack, nargs))

\* convert, lines 408-413: the final step
ConvertTarget(m_out, bt, kwargs_SI, ret_value, unpack, nargs) ==
    IF ret_value.exc # "" THEN ret_value
    ELSE ConvertUnpack(m_out, FromSI(bt.factor, ret_value.val, kwargs_SI), unpack, nargs)

\* convert, lines 342-407: the value in SI units
ConvertSwitch(m_out, start_value, bf, bt, kwargs_SI, unpack, nargs) ==
    IF kwargs_SI.exc # "" THEN kwargs_SI
    ELSE ConvertTarget(m_out, bt, kwargs_SI.val,
                       ToSI(bf.factor, bf.sig, bt.sig, start_value, kwargs_SI.val), unpack, nargs)

\* convert, lines 332-338: the default context
ConvertDefault(m_out, start_value, bf, bt, kwargs_, unpack, nargs) ==
    IF kwargs_.exc # "" THEN kwargs_
    ELSE ConvertSwitch(m_out, start_value, bf, bt,
                       DefaultContext(bf.factor, bf.sig, bt.sig, start_value, kwargs_.val),
                       unpack, nargs)

\* convert, lines 318-330: the keyword arguments in SI units
ConvertKwargs(m_out, start_value, bf, bt, kwargs, unpack, nargs) ==
    IF bt.exc # "" THEN bt
    ELSE ConvertDefault(m_out, start_value, bf, bt.val,
                        KwargsLoop(kwargs, KwIter(kwargs), NoKwargs), unpack, nargs)

\* convert, lines 313-316: the target unit broken down, unless it is 'SI'
ConvertTo(m_out, start_value, bf, kwargs, unpack, nargs) ==
    IF bf.exc # "" THEN bf
    ELSE ConvertKwargs(m_out, start_value, bf.val,
                       IF m_out.inner # SI THEN breakdown(m_out.inner)
                       ELSE Ok([factor |-> Float(One), sig |-> bf.val.sig]),
                       kwargs, unpack, nargs)

\* the source unit broken down and the input value taken as it is, in
\* brackets or not
ConvertFrom_as_is(m_in, m_out, value, kwargs, unpack, nargs) ==
    ConvertTo(m_out, value, breakdown(m_in.inner), kwargs, unpack, nargs)

\* convert, lines 301-312: the brackets taken off, the input value as a
\* power of ten if the source unit is in brackets, the source unit broken
\* down
ConvertFrom(m_in, m_out, value, kwargs, unpack, nargs) ==
    ConvertTo(m_out, IF m_in.found THEN VPow10(value) ELSE value, breakdown(m_in.inner),
              kwargs, unpack, nargs)

\* convert from line 301 on: the arguments are one value or two
ConvertValue(_from, _to, args, kwargs, unpack) ==
    ConvertFrom(Brackets(_from), Brackets(_to),
                IF Len(args) = 1 THEN args[1] ELSE uarray(args[1].nom, args[2].nom),
                kwargs, unpack, Len(args))

\* convert with the source unit broken down before the positional values
\* are counted
convert_parsing_first(_from, _to, args, kwargs) ==
    IF breakdown(Brackets(_from).inner).exc # "" THEN breakdown(Brackets(_from).inner)
    ELSE IF Len(args) \notin {1, 2} THEN Raise("ValueError", "illegal input")
    ELSE ConvertValue(_from, _to, args, DelKw(kwargs, "unpack"),
                      IF HasKey(kwargs, "unpack") THEN kwargs["unpack"].b ELSE TRUE)

\* convert(_from, _to, *args, **kwargs)
convert(_from, _to, args, kwargs) ==
    IF Len(args) \notin {1, 2} THEN Raise("ValueError", "illegal input")
    ELSE ConvertValue(_from, _to, args, DelKw(kwargs, "unpack"),
                      IF HasKey(kwargs, "unpack") THEN kwargs["unpack"].b ELSE TRUE)

(***************************************************************************)
(* nconvert (conversions.py, lines 432-462)                                *)
(***************************************************************************)

\* a list and a str given for _froms or _tos: iterating a str gives its
\* characters
PyList(items) ==
    [isstr |-> FALSE, items |-> items, s |-> <<>>]

PyStr(s) ==
    [isstr |-> TRUE, items |-> [i \in 1..Len(s) |-> <<s[i]>>], s |-> s]

\* a keyword argument with one entry for each element
KwList(items) ==
    [kind |-> "list", items |-> items]

\* kwargs[key][i] if kwargs[key] is not a str and has __iter__, as a list
\* and a tuple have, else kwargs[key]; i counts from 1 here
ItemOf(entry, i) ==
    IF entry.kind = "list"
    THEN IF i <= Len(entry.items) THEN Ok(entry.items[i])
         ELSE Raise("IndexError", "list index out of range")
    ELSE IF entry.kind = "tuple2"
    THEN IF i = 1 THEN Ok(KwFloat(entry.val))
         ELSE IF i = 2 THEN Ok(KwStr(entry.s))
         ELSE Raise("IndexError", "tuple index out of range")
    ELSE IF entry.kind = "tuple3"
    THEN IF i = 1 THEN Ok(KwFloat(entry.val))
         ELSE IF i = 2 THEN Ok(KwFloat(entry.err))
         ELSE IF i = 3 THEN Ok(KwStr(entry.s))
         ELSE Raise("IndexError", "tuple index out of range")
    ELSE Ok(entry)

RECURSIVE MyKwargs(_, _, _, _)
\* for key in kwargs: mykwargs[key] = ...
MyKwargs(kwargs, keys, i, mykwargs) ==
    IF keys = <<>> THEN Ok(mykwargs)
    ELSE Then([e \in {ItemOf(kwargs[keys[1]], i)} |->
         MyKwargs(kwargs, Tail(keys), i, SetKw(mykwargs, keys[1], e.val))])

\* ret_value[i] = value, where ret_value has ndim columns; a tuple does not
\* fit in one column, which is a ValueError, caught like those of convert
Store(ret_value, i, value, ndim) ==
    IF value.shape = "tuple" /\ ndim = 1
    THEN [nom |-> [ret_value.nom EXCEPT ![i] = NaN], std |-> ret_value.std]
    ELSE IF value.shape = "tuple"
    THEN [nom |-> [ret_value.nom EXCEPT ![i] = value.nom],
          std |-> [ret_value.std EXCEPT ![i] = value.std]]
    ELSE [nom |-> [ret_value.nom EXCEPT ![i] = value.nom],
          std |-> [ret_value.std EXCEPT ![i] = value.nom]]

\* ret_value[i] = np.nan
StoreNaN(ret_value, i) ==
    [nom |-> [ret_value.nom EXCEPT ![i] = NaN], std |-> [ret_value.std EXCEPT ![i] = NaN]]

\* except ValueError: the exceptions the loop of nconvert catches
Caught(exc) ==
    exc = "ValueError"

\* the body of the loop up to the call of convert, for the element i: what
\* building mykwargs raised, or the outcome of
\* convert(_from, _to, *[iarg[i] for iarg in args], **mykwargs)
NconvertCall(i, _froms, _tos, args, mykwargs) ==
    IF mykwargs.exc # "" THEN mykwargs
    ELSE Ok(convert(_froms[i], _tos[i], [a \in 1..Len(args) |-> V(args[a][i])], mykwargs.val))

NconvertItem(i, _froms, _tos, args, kwargs) ==
    IF \E a \in 1..Len(args) : Len(args[a]) < i
    THEN Raise("IndexError", "index out of range")
    ELSE NconvertCall(i, _froms, _tos, args, MyKwargs(kwargs, KwIter(kwargs), i, NoKwargs))

RECURSIVE NconvertLoop(_, _, _, _)
\* for i,(_from,_to) in enumerate(zip(_froms,_tos)), items[i] being what
\* the element i comes to; ret_value is not assigned when the arguments are
\* neither one list nor two
NconvertLoop(i, items, ndim, ret_value) ==
    IF i > Len(items) THEN Ok(ret_value)
    ELSE IF items[i].exc # "" THEN items[i]
    ELSE IF items[i].val.exc # "" /\ ~Caught(items[i].val.exc) THEN items[i].val
    ELSE IF ndim \notin {1, 2}
    THEN Raise("UnboundLocalError", "ret_value referenced before assignment")
    ELSE NconvertLoop(i + 1, items, ndim,
                      IF items[i].val.exc # "" THEN StoreNaN(ret_value, i)
                      ELSE Store(ret_value, i, items[i].val.val, ndim))

\* nconvert, the end: the array of the values, or of the values and the errors
NconvertArray(ndim, ret_value) ==
    IF ret_value.exc # "" THEN ret_value
    ELSE IF ndim \notin {1, 2}
    THEN Raise("UnboundLocalError", "ret_value referenced before assignment")
    ELSE Ok([ndim |-> ndim, nom |-> ret_value.val.nom,
             std |-> IF ndim = 2 THEN ret_value.val.std ELSE <<>>])

\* nconvert, the loop over zip(_froms, _tos)
NconvertZip(froms, tos, zeros, args, kwargs) ==
    NconvertArray(Len(args),
                  NconvertLoop(1, [i \in 1..Min({Len(froms), Len(tos)}) |->
                                      NconvertItem(i, froms, tos, args, kwargs)],
                               Len(args), [nom |-> zeros, std |-> zeros]))

\* nconvert(_froms, _tos, *args, **kwargs): the array returned has one row
\* of values, or, transposed, the row of the values and the row of the
\* errors
nconvert(_froms, _tos, args, kwargs) ==
    NconvertZip(IF ~_tos.isstr /\ _froms.isstr THEN [i \in 1..Len(_tos.items) |-> _froms.s]
                ELSE _froms.items,
                IF _tos.isstr THEN [i \in 1..Len(_froms.items) |-> _tos.s] ELSE _tos.items,
                IF Len(args) \in {1, 2} THEN [i \in 1..Len(args[1]) |-> Zero] ELSE <<>>,
                args, kwargs)

(***************************************************************************)
(* Stellar calibrations (conversions.py, lines 981-1055)                   *)
(***************************************************************************)

\* the constants of ivs.units.constants the calibrations use
sigma == Sym("sigma")

GG == Sym("GG")

GG_cgs == Sym("GG_cgs")

\* the square roots taken are those of the squares of 0..MaxRoot
MaxRoot == 100

\* the square root of a square; of a negative number not-a-number
Sqrt(a) ==
    IF Bad1(a) THEN a
    ELSE IF a.n < 0 THEN NaN
    ELSE IF \/ a.e % 2 # 0
            \/ \E s \in DOMAIN a.x : a.x[s] % 2 # 0
            \/ \A k \in 0..MaxRoot : k * k # a.n
            \/ \A k \in 1..MaxRoot : k * k # a.d
    THEN Unrep
    ELSE [n |-> CHOOSE k \in 0..MaxRoot : k * k = a.n,
          d |-> CHOOSE k \in 1..MaxRoot : k * k = a.d,
          e |-> a.e \div 2,
          x |-> [s \in DOMAIN a.x |-> a.x[s] \div 2]]

\* sqrt(a) of unumpy
VSqrt(a) ==
    [nom |-> Sqrt(a.nom),
     std |-> IF a.std = Zero THEN Zero
             ELSE Div(a.std, Mul(Int2Num(2), Sqrt(a.nom))),
     shape |-> a.shape]

\* the arithmetic of the calibrations on what convert returned: a tuple
\* (value, error) or a date is no number
IsNumber(a) ==
    a.shape \in {"float", "ufloat"}

NoNumber ==
    Raise("TypeError", "unsupported operand type(s)")

\* convert(x[-1], to, *x[:-1]) for x = (value, units) or
\* x = (unumpy.uarray([value, error]), units)
ConvertTuple(x, _to) ==
    convert(x.s, _to, <<IF x.kind = "tuple3" THEN uarray(x.val, x.err) ELSE V(x.val)>>,
            NoKwargs)

\* unumpy.uarray([x[0], x[1]])[-1]: the array of one value and its error
\* has no dimension to index
NoIndex ==
    Raise("IndexError", "0-d arrays can't be indexed")

\* R = sqrt(lumi / (teff**4)/(4*np.pi*sigma))
Radius(lumi, teff) ==
    IF ~IsNumber(teff) \/ ~IsNumber(lumi) THEN NoNumber
    ELSE Ok(VSqrt(VDiv(VDiv(lumi, VPow(teff, 4)), V(Mul(Norm(4, 1, 0, Sym("pi").x), sigma)))))

\* logg = log10(GG_cgs*M / (R**2))
LogG(M, R) ==
    IF ~IsNumber(M) \/ ~IsNumber(R) THEN NoNumber
    ELSE Ok(VLog10(VDiv(VMul(V(GG_cgs), M), VPow(R, 2))))

\* M = grav*R**2/GG
Mass(grav, R) ==
    IF ~IsNumber(R) \/ ~IsNumber(grav) THEN NoNumber
    ELSE Ok(VDiv(VMul(grav, VPow(R, 2)), V(GG)))

\* derive_radius(luminosity, temperature), lumi and teff being what the
\* two calls of convert come to: a tuple of three is replaced by the uarray
\* of its first two elements, the units being dropped, before its last
\* element is taken for the units
derive_radius(luminosity, temperature, lumi, teff) ==
    IF luminosity.kind = "tuple3" THEN NoIndex
    ELSE IF lumi.exc # "" THEN lumi
    ELSE IF temperature.kind = "tuple3" THEN NoIndex
    ELSE IF teff.exc # "" THEN teff
    ELSE Radius(lumi.val, teff.val)

\* derive_logg(mass, radius), M and R being what the two calls of convert
\* come to
derive_logg(mass, radius, M, R) ==
    IF M.exc # "" THEN M
    ELSE IF R.exc # "" THEN R
    ELSE LogG(M.val, R.val)

\* derive_mass(surface_gravity, radius), grav and R being what the two
\* calls of convert come to
derive_mass(surface_gravity, radius, grav, R) ==
    IF grav.exc # "" THEN grav
    ELSE IF R.exc # "" THEN R
    ELSE Mass(grav.val, R.val)

\* the units a calibration converts its two arguments to
DeriveTo(fn) ==
    CASE fn = "derive_radius" -> <<SI, SI>>
      [] fn = "derive_logg" -> <<<<"g">>, <<"c","m">>>>
      [] fn = "derive_mass" -> <<<<"m","/","s","2">>, <<"m">>>>

\* the calibration of that name, its two conversions made
Derived(fn, first, second) ==
    With([c \in {[i \in 1..2 |-> ConvertTuple(IF i = 1 THEN first ELSE second,
                                             DeriveTo(fn)[i])]} |->
    CASE fn = "derive_radius" -> derive_radius(first, second, c[1], c[2])
      [] fn = "derive_logg" -> derive_logg(first, second, c[1], c[2])
      [] fn = "derive_mass" -> derive_mass(first, second, c[1], c[2])])

\* the calls of convert: the units, the keyword arguments and the unit of
\* the values drawn
ConvertInputs ==
    {
      [from |-> <<"k","m">>, to |-> <<"c","m">>,
       kwargs |-> NoKwargs, scale |-> Dec(1, 0)],
      [from |-> <<"m">>, to |-> <<"k","m">>,
       kwargs |-> NoKwargs, scale |-> Dec(1, 3)],
      [from |-> <<"m","/","s">>, to |-> <<"k","m","/","h">>,
       kwargs |-> NoKwargs, scale |-> Dec(1, 0)],
      [from |-> <<"e","r","g"," ","s","-","1"," ","c","m","-","2"," ","A","-","1">>, to |-> <<"S","I">>,
       kwargs |-> NoKwargs, scale |-> Dec(1, 0)],
      [from |-> <<"1","0","m","W"," ","m","-","2","/","n","m">>, to |-> <<"e","r","g"," ","s","-","1"," ","c","m","-","2"," ","A","-","1">>,
       kwargs |-> NoKwargs, scale |-> Dec(1, 0)],
      [from |-> <<"[","m","]">>, to |-> <<"[","k","m","]">>,
       kwargs |-> NoKwargs, scale |-> Dec(1, 0)],
      [from |-> <<"F">>, to |-> <<"K">>,
       kwargs |-> NoKwargs, scale |-> Dec(1, 0)],
      [from |-> <<"k","F">>, to |-> <<"k","K">>,
       kwargs |-> NoKwargs, scale |-> Dec(1, 0)],
      [from |-> <<"C">>, to |-> <<"F">>,
       kwargs |-> NoKwargs, scale |-> Dec(1, 0)],
      [from |-> <<"C">>, to |-> <<"K">>,
       kwargs |-> ("wave" :> Tuple2(Dec(2, 0), <<"m","u","m">>)), scale |-> Dec(1, 0)],
      [from |-> <<"m","A","m","a","g">>, to |-> <<"p","p","t">>,
       kwargs |-> NoKwargs, scale |-> Dec(25, 2)],
      [from |-> <<"A">>, to |-> <<"k","m","/","s">>,
       kwargs |-> ("wave" :> Tuple2(Dec(2, 0), <<"A">>)), scale |-> Dec(1, 0)],
      [from |-> <<"J","y">>, to |-> <<"e","r","g","/","s","/","c","m","2","/","A">>,
       kwargs |-> ("wave" :> Tuple2(Dec(2, 0), <<"m","u","m">>)), scale |-> Dec(1, 0)],
      [from |-> <<"J","y">>, to |-> <<"e","r","g","/","s","/","c","m","2">>,
       kwargs |-> ("wave" :> Tuple2(Dec(2, 0), <<"m","u","m">>)), scale |-> Dec(1, 0)],
      [from |-> <<"e","r","g","/","s","/","c","m","2","/","A">>, to |-> <<"e","r","g","/","s","/","c","m","2">>,
       kwargs |-> ("wave" :> Tuple2(Dec(2, 0), <<"m","u","m">>)), scale |-> Dec(1, 0)],
      [from |-> <<"m">>, to |-> <<"c","y","/","a","r","c","s","e","c">>,
       kwargs |-> ("wave" :> Tuple2(Dec(2, 0), <<"m","u","m">>)), scale |-> Dec(1, 0)],
      [from |-> <<"W","/","m","2","/","s","r">>, to |-> <<"W","/","m","2">>,
       kwargs |-> ("ang_diam" :> Tuple2(Dec(2, 0), <<"d","e","g">>)), scale |-> Dec(1, 0)],
      [from |-> <<"J","y">>, to |-> <<"e","r","g","/","s","/","c","m","2","/","A">>,
       kwargs |-> ("freq" :> Tuple2(Dec(3, 0), <<"G","h","z">>)), scale |-> Dec(1, 0)],
      [from |-> <<"m">>, to |-> <<"c","y","/","a","r","c","s","e","c">>,
       kwargs |-> ("freq" :> Tuple2(Dec(3, 0), <<"G","h","z">>)), scale |-> Dec(1, 0)],
      [from |-> <<"c","y","/","a","r","c","s","e","c">>, to |-> <<"m">>,
       kwargs |-> ("freq" :> Tuple2(Dec(3, 0), <<"G","h","z">>)), scale |-> Dec(1, 0)],
      [from |-> <<"A">>, to |-> <<"k","m","/","s">>,
       kwargs |-> ("freq" :> Tuple2(Dec(3, 0), <<"G","h","z">>)), scale |-> Dec(1, 0)],
      [from |-> <<"n","m">>, to |-> <<"G","h","z">>,
       kwargs |-> NoKwargs, scale |-> Dec(1, 0)],
      [from |-> <<"A">>, to |-> <<"k","m","/","s">>,
       kwargs |-> NoKwargs, scale |-> Dec(1, 0)],
      [from |-> <<"k","m","/","s">>, to |-> <<"A">>,
       kwargs |-> NoKwargs, scale |-> Dec(1, 0)],
      [from |-> <<"J","y">>, to |-> <<"e","r","g","/","s","/","c","m","2","/","A">>,
       kwargs |-> NoKwargs, scale |-> Dec(1, 0)],
      [from |-> <<"W","/","m","2","/","s","r">>, to |-> <<"W","/","m","2">>,
       kwargs |-> NoKwargs, scale |-> Dec(1, 0)],
      [from |-> <<"J","y">>, to |-> <<"e","r","g","/","s","/","c","m","2","/","A">>,
       kwargs |-> ("photband" :> KwStr(<<"J","O","H","N","S","O","N",".","V">>)), scale |-> Dec(1, 0)],
      [from |-> <<"J","y">>, to |-> <<"e","r","g","/","s","/","c","m","2","/","A">>,
       kwargs |-> ("photband" :> KwStr(<<"N","O",".","B","A","N","D">>)), scale |-> Dec(1, 0)],
      [from |-> <<"m","a","g">>, to |-> <<"S","I">>,
       kwargs |-> ("photband" :> KwStr(<<"j","o","h","n","s","o","n",".","v">>)), scale |-> Dec(25, -1)],
      [from |-> <<"m","a","g">>, to |-> <<"S","I">>,
       kwargs |-> ("photband" :> KwStr(<<"N","O",".","B","A","N","D">>)), scale |-> Dec(25, -1)],
      [from |-> <<"m","a","g">>, to |-> <<"S","I">>,
       kwargs |-> NoKwargs, scale |-> Dec(25, -1)],
      [from |-> <<"A","B","m","a","g">>, to |-> <<"S","I">>,
       kwargs |-> ("photband" :> KwStr(<<"J","O","H","N","S","O","N",".","V">>)), scale |-> Dec(25, -1)],
      [from |-> <<"S","T","m","a","g">>, to |-> <<"S","I">>,
       kwargs |-> NoKwargs, scale |-> Dec(25, -1)],
      [from |-> <<"m","a","g","_","c","o","l","o","r">>, to |-> <<"f","l","u","x","_","r","a","t","i","o">>,
       kwargs |-> ("photband" :> KwStr(<<"J","O","H","N","S","O","N",".","B","-","V">>)), scale |-> Dec(25, -1)],
      [from |-> <<"m","a","g","_","c","o","l","o","r">>, to |-> <<"f","l","u","x","_","r","a","t","i","o">>,
       kwargs |-> NoKwargs, scale |-> Dec(25, -1)],
      [from |-> <<"m">>, to |-> <<"s">>,
       kwargs |-> NoKwargs, scale |-> Dec(1, 0)],
      [from |-> <<"k","g">>, to |-> <<"K">>,
       kwargs |-> NoKwargs, scale |-> Dec(1, 0)],
      [from |-> <<"W","/","m","2","/","s","r">>, to |-> <<"m">>,
       kwargs |-> NoKwargs, scale |-> Dec(1, 0)],
      [from |-> <<"W","/","m","2","/","s","r">>, to |-> <<"m">>,
       kwargs |-> ("ang_diam" :> Tuple2(Dec(2, 0), <<"d","e","g">>)), scale |-> Dec(1, 0)],
      [from |-> <<"x","y">>, to |-> <<"m">>,
       kwargs |-> NoKwargs, scale |-> Dec(1, 0)],
      [from |-> <<"m">>, to |-> <<"x","y">>,
       kwargs |-> NoKwargs, scale |-> Dec(1, 0)],
      [from |-> <<"m">>, to |-> <<"k","m">>,
       kwargs |-> ("wave" :> Tuple2(Dec(1, 0), <<"x","y">>)), scale |-> Dec(1, 0)],
      [from |-> <<"m"," ","x","y">>, to |-> <<"m">>,
       kwargs |-> NoKwargs, scale |-> Dec(1, 0)],
      [from |-> <<"m">>, to |-> <<"S","I">>,
       kwargs |-> NoKwargs, scale |-> Dec(1, 0)],
      [from |-> <<"x","y">>, to |-> <<"S","I">>,
       kwargs |-> NoKwargs, scale |-> Dec(1, 0)],
      [from |-> <<"m","/","/","s">>, to |-> <<"m">>,
       kwargs |-> NoKwargs, scale |-> Dec(1, 0)],
      [from |-> <<"m","/","/","s">>, to |-> <<"x","y">>,
       kwargs |-> NoKwargs, scale |-> Dec(1, 0)],
      [from |-> <<"A">>, to |-> <<"k","m","/","s">>,
       kwargs |-> ("wave" :> Tuple2(Dec(1, 0), <<"C">>)), scale |-> Dec(1, 0)],
      [from |-> <<"A">>, to |-> <<"k","m","/","s">>,
       kwargs |-> ("wave" :> Tuple2(Dec(1, 0), <<"C">>)) @@ ("freq" :> Tuple2(Dec(1, 0), <<"x","y">>)), scale |-> Dec(1, 0)],
      [from |-> <<"M","J","D">>, to |-> <<"J","D">>,
       kwargs |-> ("jtype" :> KwStr(<<"c","o","r","o","t">>)), scale |-> Dec(1, 0)],
      [from |-> <<"M","J","D">>, to |-> <<"J","D">>,
       kwargs |-> ("jtype" :> KwStr(<<"x","x">>)), scale |-> Dec(1, 0)],
      [from |-> <<"M","J","D">>, to |-> <<"J","D">>,
       kwargs |-> NoKwargs, scale |-> Dec(1, 0)],
      [from |-> <<"m">>, to |-> <<"m","m">>,
       kwargs |-> NoKwargs, scale |-> Dec(1, 0)],
      [from |-> <<"k","m">>, to |-> <<"m">>,
       kwargs |-> ("wave" :> Tuple3(Dec(1, 0), Dec(1, -1), <<"m">>)), scale |-> Dec(1, 0)],
      [from |-> <<"J","y">>, to |-> <<"e","r","g","/","s","/","c","m","2","/","A">>,
       kwargs |-> ("wave" :> Tuple3(Dec(1, 0), Dec(1, -1), <<"m">>)), scale |-> Dec(1, 0)],
      [from |-> <<"m">>, to |-> <<"k","m">>,
       kwargs |-> ("unpack" :> KwBool(FALSE)), scale |-> Dec(1, 0)],
      [from |-> <<"[","m","]">>, to |-> <<"k","m">>,
       kwargs |-> NoKwargs, scale |-> Dec(1, 0)],
      [from |-> <<"k","m">>, to |-> <<"[","m","]">>,
       kwargs |-> NoKwargs, scale |-> Dec(1, 0)],
      [from |-> <<"[","m","]">>, to |-> <<"[","k","m","]">>,
       kwargs |-> NoKwargs, scale |-> Dec(1, 0)],
      [from |-> <<"[","C","]">>, to |-> <<"K">>,
       kwargs |-> NoKwargs, scale |-> Dec(1, 0)],
      [from |-> <<"[","A","]">>, to |-> <<"k","m","/","s">>,
       kwargs |-> ("wave" :> Tuple2(Dec(2, 0), <<"A">>)), scale |-> Dec(1, 0)],
      [from |-> <<"C","D">>, to |-> <<"J","D">>,
       kwargs |-> NoKwargs, scale |-> Dec(1, 0)],
      [from |-> <<"M","J","D">>, to |-> <<"J","D">>,
       kwargs |-> ("jtype" :> KwStr(<<"H","i","p">>)), scale |-> Dec(1, 0)],
      [from |-> <<"M","J","D">>, to |-> <<"J","D">>,
       kwargs |-> ("jtype" :> KwStr(<<"m","j","d">>)), scale |-> Dec(1, 0)],
      [from |-> <<"k","F">>, to |-> <<"K">>,
       kwargs |-> NoKwargs, scale |-> Dec(1, 0)],
      [from |-> <<"K">>, to |-> <<"d","C">>,
       kwargs |-> NoKwargs, scale |-> Dec(1, 0)],
      [from |-> <<"m","A","m","a","g">>, to |-> <<"a","m","p","l">>,
       kwargs |-> NoKwargs, scale |-> Dec(25, 2)],
      [from |-> <<"k","m","a","g">>, to |-> <<"e","r","g","/","s","/","c","m","2","/","A">>,
       kwargs |-> ("photband" :> KwStr(<<"J","O","H","N","S","O","N",".","V">>)), scale |-> Dec(25, -1)],
      [from |-> <<"m","a","g","_","c","o","l","o","r">>, to |-> <<"f","l","u","x","_","r","a","t","i","o">>,
       kwargs |-> ("photband" :> KwStr(<<"S","T","R","O","M","G","R","E","N",".","M","1">>)), scale |-> Dec(25, -1)],
      [from |-> <<"m","a","g","_","c","o","l","o","r">>, to |-> <<"f","l","u","x","_","r","a","t","i","o">>,
       kwargs |-> ("photband" :> KwStr(<<"S","T","R","O","M","G","R","E","N",".","C","1">>)), scale |-> Dec(25, -1)],
      [from |-> <<"m","a","g">>, to |-> <<"S","I">>,
       kwargs |-> ("photband" :> KwStr(<<"J","O","H","N","S","O","N",".","B">>)), scale |-> Dec(25, -1)],
      [from |-> <<"m","a","g">>, to |-> <<"S","I">>,
       kwargs |-> ("photband" :> KwStr(<<"G","E","N","E","V","A",".","V">>)), scale |-> Dec(25, -1)],
      [from |-> <<"S","T","m","a","g">>, to |-> <<"S","I">>,
       kwargs |-> ("photband" :> KwStr(<<"G","E","N","E","V","A",".","V">>)), scale |-> Dec(25, -1)],
      [from |-> <<"S","T","m","a","g">>, to |-> <<"S","I">>,
       kwargs |-> ("photband" :> KwStr(<<"J","O","H","N","S","O","N",".","V">>)), scale |-> Dec(25, -1)],
      [from |-> <<"S","T","m","a","g">>, to |-> <<"S","I">>,
       kwargs |-> ("photband" :> KwStr(<<"J","O","H","N","S","O","N",".","B">>)), scale |-> Dec(25, -1)],
      [from |-> <<"A","B","m","a","g">>, to |-> <<"S","I">>,
       kwargs |-> ("photband" :> KwStr(<<"G","E","N","E","V","A",".","V">>)), scale |-> Dec(25, -1)],
      [from |-> <<"A","B","m","a","g">>, to |-> <<"S","I">>,
       kwargs |-> ("photband" :> KwStr(<<"J","O","H","N","S","O","N",".","B">>)), scale |-> Dec(25, -1)],
      [from |-> <<"A","B","m","a","g">>, to |-> <<"J","y">>,
       kwargs |-> ("photband" :> KwStr(<<"G","E","N","E","V","A",".","V">>)), scale |-> Dec(25, -1)],
      [from |-> <<"A","B","m","a","g">>, to |-> <<"J","y">>,
       kwargs |-> ("photband" :> KwStr(<<"J","O","H","N","S","O","N",".","V">>)), scale |-> Dec(25, -1)],
      [from |-> <<"S","T","m","a","g">>, to |-> <<"e","r","g","/","s","/","c","m","2","/","A">>,
       kwargs |-> ("photband" :> KwStr(<<"J","O","H","N","S","O","N",".","V">>)), scale |-> Dec(25, -1)],
      [from |-> <<"m","a","g">>, to |-> <<"e","r","g","/","s","/","c","m","2","/","A">>,
       kwargs |-> ("photband" :> KwStr(<<"J","O","H","N","S","O","N",".","B">>)), scale |-> Dec(25, -1)],
      [from |-> <<"G","h","z">>, to |-> <<"n","m">>,
       kwargs |-> NoKwargs, scale |-> Dec(1, 0)],
      [from |-> <<"G","h","z">>, to |-> <<"n","m">>,
       kwargs |-> ("freq" :> Tuple2(Dec(3, 0), <<"G","h","z">>)), scale |-> Dec(1, 0)],
      [from |-> <<"G","h","z">>, to |-> <<"n","m">>,
       kwargs |-> ("wave" :> Tuple2(Dec(2, 0), <<"m","u","m">>)), scale |-> Dec(1, 0)],
      [from |-> <<"A">>, to |-> <<"k","m","/","s">>,
       kwargs |-> ("wave" :> Tuple2(Dec(1, 0), <<"[","A","]">>)), scale |-> Dec(1, 0)],
      [from |-> <<"W","/","m","2">>, to |-> <<"W","/","m","2","/","s","r">>,
       kwargs |-> ("ang_diam" :> Tuple2(Dec(2, 0), <<"d","e","g">>)), scale |-> Dec(1, 0)],
      [from |-> <<"J","y">>, to |-> <<"e","r","g","/","s","/","c","m","2","/","A","/","s","r">>,
       kwargs |-> ("wave" :> Tuple2(Dec(2, 0), <<"m","u","m">>)) @@
                  ("ang_diam" :> Tuple2(Dec(2, 0), <<"d","e","g">>)), scale |-> Dec(1, 0)],
      [from |-> <<"W","/","m","2","/","r","a","d","3">>, to |-> <<"W","/","m","2">>,
       kwargs |-> ("ang_diam" :> Tuple2(Dec(2, 0), <<"d","e","g">>)), scale |-> Dec(1, 0)],
      [from |-> <<"r","a","d","2","1">>, to |-> <<"m">>,
       kwargs |-> NoKwargs, scale |-> Dec(1, 0)]
    }

\* the calls of convert that give their one positional value as an
\* uncertainty object
UfloatInputs ==
    {inp \in ConvertInputs : inp.to = <<"m","m">>}

\* the tokens unit expressions are made of
Tokens ==
    { <<"m">>,
      <<"s","-","1">>,
      <<"e","r","g">>,
      <<"k","m">>,
      <<"W","2">>,
      <<"c","m","-","2">>,
      <<"C">>,
      <<"x","y">>,
      <<"h","z">>,
      <<"s","r">> }

\* unit expressions drawn besides the sequences of tokens
UnitExprs ==
    { <<"e","r","g"," ","s","-","1"," ","c","m","-","2"," ","A","-","1">>,
      <<"W"," ","m","-","3">>,
      <<"e","r","g"," ","s","-","1"," ","W","2"," ","k","g","2"," ","c","m","-","2">>,
      <<"k","g","1"," ","m","-","1"," ","s","-","3">>,
      <<"m"," ","m","-","1">>,
      <<"e","r","g","/","s","/","c","m","2","/","a","n","g","s","t","r","o","m">>,
      <<"1","0","-","1","4","e","r","g">>,
      <<"d","a","m">>,
      <<"r","p","m">>,
      <<"k","F">>,
      <<"m","/","/","s">>,
      <<"1","0","-","1","4"," ","x","y">>,
      <<"2","5","e","+","0","2","W">>,
      <<"1","0","E","-","0","1","k","m","2">>,
      <<"d","a","s","-","1">>,
      <<"m","i","n">>,
      <<"P","a","2">>,
      <<"y","d">>,
      <<"a","0">>,
      <<"s","i","d","e","r","e","a","l">> }

\* the pairs of units of the elements of a batch
BatchUnits ==
    << <<<<"k","m">>, <<"m">>>>,
       <<<<"x","y">>, <<"m">>>>,
       <<<<"m">>, <<"s">>>>,
       <<<<"k","m","/","s">>, <<"A">>>>,
       <<<<"m","a","g">>, <<"S","I">>>> >>

(***************************************************************************)
(* The calls made of the module                                            *)
(***************************************************************************)

\* the values drawn are 1..MaxValue times the unit of the input
MaxValue == 2

\* the calls of convert give 0..MaxArgs positional values
MaxArgs == 3

\* the unit expressions drawn have 1..MaxTokens tokens
MaxTokens == 2

\* the batches drawn have 1..MaxBatch elements
MaxBatch == 2

Idle ==
    [op |-> "idle", from |-> <<>>, to |-> <<>>, args |-> <<>>, kwargs |-> <<>>,
     origin |-> <<>>]

NoRet ==
    [exc |-> "none", msg |-> "", val |-> <<>>]

\* the result is one the model represents
Rep(r) ==
    IF r.exc # "" THEN TRUE ELSE Representable(r.val)

\* the positional values of a call: the value, its error (a tenth of it),
\* and the value again for every further one
ArgsOf(value, n) ==
    [i \in 1..n |-> IF i = 2 THEN V(Mul(value, Dec(1, -1))) ELSE V(value)]

\* the sequences of 1..MaxTokens tokens, joined with blanks
RECURSIVE TokenSeqs(_)
TokenSeqs(n) ==
    IF n = 1 THEN Tokens
    ELSE TokenSeqs(n - 1) \cup {s \o <<" ">> \o t : s \in TokenSeqs(n - 1), t \in Tokens}

Units ==
    UnitExprs \cup TokenSeqs(MaxTokens)

\* the batches: sequences of 1..MaxBatch indices of BatchUnits
RECURSIVE Batches(_)
Batches(n) ==
    IF n = 0 THEN {<<>>}
    ELSE Batches(n - 1) \cup {Append(b, i) : b \in Batches(n - 1), i \in 1..Len(BatchUnits)}

\* the keyword arguments of a batch
BatchKwargs ==
    { NoKwargs, "wave" :> KwFloat(Dec(2, -10)) }

Init ==
    /\ _factors = _factors_
    /\ _scalings \in _scalings_iter
    /\ _aliases = _aliases_
    /\ _switch = _switch_
    /\ kwargs_order \in {"fwd", "rev"}
    /\ call = Idle
    /\ ret = NoRet

\* the years and the months of the calendar dates drawn
Years ==
    {1985, 2000}

Months ==
    {1, 2, 7, 12}

\* the number of days of the month in the Gregorian calendar
DaysIn(year, month) ==
    IF month = 2 THEN (IF year % 4 = 0 /\ (year % 100 # 0 \/ year % 400 = 0) THEN 29 ELSE 28)
    ELSE IF month \in {4, 6, 9, 11} THEN 30 ELSE 31

\* the first day, one in the middle and the last day of the month
Days(year, month) ==
    {1, 11, DaysIn(year, month)}

\* the calendar dates drawn: the day counts 0..3 quarters more
Dates ==
    UNION {UNION {{CalendarDate(year, month, 4 * day + quarter) :
                      day \in Days(year, month), quarter \in 0..3} :
                  month \in Months} : year \in Years}

\* the calls of convert that give a calendar date
DateInputs ==
    {inp \in ConvertInputs : inp.from = <<"C","D">>}

\* the positional values of a call: n floats, or one uncertainty object, or
\* one calendar date
Values(inp, v, n) ==
    IF inp \in DateInputs
    THEN (IF v = 1 /\ n = 1 THEN {<<date>> : date \in Dates} ELSE {})
    ELSE IF inp \in UfloatInputs /\ n = 1
    THEN {<<uarray(Mul(Int2Num(v), inp.scale), Mul(Int2Num(v), Dec(1, -1)))>>}
    ELSE {ArgsOf(Mul(Int2Num(v), inp.scale), n)}

\* convert(from, to, *args, **kwargs) with kwargs.pop('unpack', True) acting
\* on the mapping of the caller
Convert_popping ==
    /\ call.op = "idle"
    /\ \E inp \in ConvertInputs : \E v \in 1..MaxValue : \E n \in 0..MaxArgs :
       \E args \in Values(inp, v, n) :
       \E r \in {convert(inp.from, inp.to, args, inp.kwargs)} :
          /\ Rep(r)
          /\ call' = [op |-> "convert", from |-> inp.from, to |-> inp.to,
                      args |-> args, kwargs |-> DelKw(inp.kwargs, "unpack"),
                      origin |-> <<>>]
          /\ ret' = r
    /\ UNCHANGED globals

\* convert(from, to, *args, **kwargs)
Convert ==
    /\ call.op = "idle"
    /\ \E inp \in ConvertInputs : \E v \in 1..MaxValue : \E n \in 0..MaxArgs :
       \E args \in Values(inp, v, n) :
       \E r \in {convert(inp.from, inp.to, args, inp.kwargs)} :
          /\ Rep(r)
          /\ call' = [op |-> "convert", from |-> inp.from, to |-> inp.to,
                      args |-> args, kwargs |-> inp.kwargs, origin |-> <<>>]
          /\ ret' = r
    /\ UNCHANGED globals

\* the positional values that give back what convert returned
Returned(v) ==
    IF v.shape = "tuple" THEN <<V(v.nom), V(v.std)>> ELSE <<[v EXCEPT !.std = Zero]>>

\* convert(to, from, *convert(from, to, *args, **kwargs), **kwargs)
ConvertBack ==
    /\ call.op = "convert"
    /\ ret.exc = ""
    /\ \E args \in {Returned(ret.val)} :
       \E r \in {convert(call.to, call.from, args, call.kwargs)} :
          /\ Rep(r)
          /\ call' = [op |-> "convert_back", from |-> call.to, to |-> call.from,
                      args |-> args, kwargs |-> call.kwargs, origin |-> call.args]
          /\ ret' = r
    /\ UNCHANGED globals

\* unit expressions with a division sign, well formed and malformed
SlashUnits ==
    { <<"e","r","g","/","s","/","c","m","2","/","A">>,
      <<"1","0","m","W"," ","m","-","2","/","n","m">>,
      <<"e","r","g","/","s","/","c","m","2","/","a","n","g","s","t","r","o","m">>,
      <<"W","/","m","2","/","1","0","n","m">>,
      <<"k","g"," ","m","/","s","-","2">>,
      <<"J","/","1","s"," ","m","2">>,
      <<"k","m","/","s"," ","k","g","/","m","3">>,
      <<"m","/","/","s">>,
      <<"m","/">>,
      <<"m","/","1">>,
      <<"m","/","s","/","2"," ","k","g">>,
      <<"m","/","-","2">> }

\* the calibrations, the names of their two arguments and the quantities
\* drawn for these, each as (value, units) and as (value, error, units)
DeriveInputs ==
    { [fn |-> "derive_radius", names |-> <<"luminosity", "temperature">>,
       first |-> [val |-> Mul(Norm(144, 1, 0, Sym("pi").x), sigma), s |-> <<"W">>],
       second |-> [val |-> Dec(2, -3), s |-> <<"k","K">>]],
      [fn |-> "derive_logg", names |-> <<"mass", "radius">>,
       first |-> [val |-> Inv(GG_cgs), s |-> <<"k","g">>],
       second |-> [val |-> Dec(1, 0), s |-> <<"m">>]],
      [fn |-> "derive_mass", names |-> <<"surface_gravity", "radius">>,
       first |-> [val |-> Dec(4, 0), s |-> <<"[","c","m","/","s","2","]">>],
       second |-> [val |-> Dec(1, 0), s |-> <<"k","m">>]] }

\* (value, units) or (value, error, units), the error a tenth of the value
TupleOf(quantity, n) ==
    IF n = 2 THEN Tuple2(quantity.val, quantity.s)
    ELSE Tuple3(quantity.val, Mul(quantity.val, Dec(1, -1)), quantity.s)

\* derive_radius(luminosity, temperature), derive_logg(mass, radius) and
\* derive_mass(surface_gravity, radius)
Derive ==
    /\ call.op = "idle"
    /\ \E inp \in DeriveInputs : \E n1 \in 2..3 : \E n2 \in 2..3 :
       \E first \in {TupleOf(inp.first, n1)} : \E second \in {TupleOf(inp.second, n2)} :
       \E r \in {Derived(inp.fn, first, second)} :
          /\ Rep(r)
          /\ call' = [Idle EXCEPT !.op = inp.fn,
                                  !.kwargs = (inp.names[1] :> first) @@ (inp.names[2] :> second)]
          /\ ret' = r
    /\ UNCHANGED globals

\* solve_aliases(unit)
SolveAliases ==
    /\ call.op = "idle"
    /\ \E unit \in SlashUnits \cup UnitExprs :
          /\ call' = [Idle EXCEPT !.op = "solve_aliases", !.from = unit]
          /\ ret' = solve_aliases(unit)
    /\ UNCHANGED globals

\* breakdown(unit)
Breakdown ==
    /\ call.op = "idle"
    /\ \E unit \in Units :
          /\ call' = [Idle EXCEPT !.op = "breakdown", !.from = unit]
          /\ ret' = breakdown(unit)
    /\ UNCHANGED globals

\* components(unit)
Components ==
    /\ call.op = "idle"
    /\ \E unit \in Tokens \cup UnitExprs :
          /\ call' = [Idle EXCEPT !.op = "components", !.from = unit]
          /\ ret' = components(unit)
    /\ UNCHANGED globals

\* nconvert(_froms, _tos, values, **kwargs),
\* nconvert(_froms, _tos, values, errors, **kwargs) and, with one target
\* unit for every element, nconvert(_froms, 'm', values, **kwargs)
Nconvert ==
    /\ call.op = "idle"
    /\ \E b \in Batches(MaxBatch) \ {<<>>} : \E n \in 1..2 : \E kwargs \in BatchKwargs :
       \E _tos \in {PyList([i \in 1..Len(b) |-> BatchUnits[b[i]][2]]), PyStr(<<"m">>)} :
       \E _froms \in {[i \in 1..Len(b) |-> BatchUnits[b[i]][1]]} :
       \E args \in {[a \in 1..n |-> [i \in 1..Len(b) |->
                                        IF a = 1 THEN Int2Num(i) ELSE Dec(1, -1)]]} :
          /\ call' = [op |-> "nconvert", from |-> _froms,
                      to |-> _tos,
                      args |-> args, kwargs |-> kwargs, origin |-> <<>>]
          /\ ret' = nconvert(PyList(_froms), _tos, args, kwargs)
    /\ UNCHANGED globals

\* the call is over
Return ==
    /\ call.op # "idle"
    /\ call' = Idle
    /\ ret' = NoRet
    /\ UNCHANGED globals

Next ==
    \/ Convert
    \/ ConvertBack
    \/ SolveAliases
    \/ Breakdown
    \/ Components
    \/ Nconvert
    \/ Derive
    \/ Return

Spec == Init /\ [][Next]_vars

(***************************************************************************)
(* Properties of convert, breakdown, components and nconvert               *)
(***************************************************************************)

\* the call in progress is convert, or the reverse convert, with one or two
\* positional values
IsConvert ==
    /\ call.op \in {"convert", "convert_back"}
    /\ Len(call.args) \in {1, 2}

\* the unit without its logarithm brackets
Stripped(unit) ==
    Brackets(unit).inner

\* both units are accepted by breakdown and have the same signature
SameSignature(a, b) ==
    /\ breakdown(a).exc = ""
    /\ breakdown(b).exc = ""
    /\ breakdown(a).val.sig = breakdown(b).val.sig

\* the reverse call is one of two units of the same dimension, or one whose
\* context the caller gave explicitly, none of it a passband, and neither
\* unit is the word SI
C1_Covered ==
    /\ call.op = "convert_back"
    /\ ~HasKey(call.kwargs, "photband")
    /\ call.from # SI
    /\ call.to # SI
    /\ \/ SameSignature(Stripped(call.from), Stripped(call.to))
       \/ DOMAIN call.kwargs \cap {"wave", "freq", "ang_diam", "radius", "pix"} # {}

\* C1: converting a value from a unit to a unit of the same dimension, or of
\* a dimension linked by a context the caller gives, and converting the
\* result back with the same context, gives the original value
C1_RoundTrip ==
    C1_Covered => (ret.exc = "" /\ Returned(ret.val) = call.origin)

\* both units as they are given are accepted by breakdown with linear
\* factors and have the same signature
Linear(a, b) ==
    /\ SameSignature(a, b)
    /\ IsFloat(breakdown(a).val.factor)
    /\ IsFloat(breakdown(b).val.factor)

\* k = facFrom / facTo, the aggregate scale factors returned by breakdown
ScaleK(a, b) ==
    Div(breakdown(a).val.factor.prefix, breakdown(b).val.factor.prefix)

\* the positional values are numbers, none an object that carries its own
\* uncertainty
Numbers(values) ==
    \A i \in 1..Len(values) : values[i].shape = "float"

\* C2: for two unit expressions of the same dimension whose factors are both
\* linear, convert(from, to, v, e) returns (v * k, e * k) with
\* k = facFrom / facTo, and convert(from, to, v) returns v * k
C2_LinearScaling ==
    (IsConvert /\ Numbers(call.args) /\ call.kwargs = NoKwargs
               /\ Linear(call.from, call.to)) =>
        /\ ret.exc = ""
        /\ ret.val.nom = Mul(call.args[1].nom, ScaleK(call.from, call.to))
        /\ IF Len(call.args) = 2
           THEN /\ ret.val.shape = "tuple"
                /\ ret.val.std = Mul(call.args[2].nom, ScaleK(call.from, call.to))
           ELSE /\ ret.val.shape = "float"
                /\ ret.val.std = Zero

\* convert('m/s', 'km/h', 1., 0.1) has returned (3.6, 0.36)
C2_Witness ==
    /\ call.op = "convert"
    /\ call.from = <<"m", "/", "s">>
    /\ call.to = <<"k", "m", "/", "h">>
    /\ call.args = <<V(One), V(Dec(1, -1))>>
    /\ ret = Ok([nom |-> Dec(36, -1), std |-> Dec(36, -2), shape |-> "tuple"])

\* the sequence without its i-th element
Without(seq, i) ==
    SubSeq(seq, 1, i - 1) \o SubSeq(seq, i + 1, Len(seq))

\* the permutations of a sequence
RECURSIVE Perms(_)
Perms(seq) ==
    IF seq = <<>> THEN {<<>>}
    ELSE UNION {{<<seq[i]>> \o p : p \in Perms(Without(seq, i))} : i \in 1..Len(seq)}

\* the unit expressions made of the same blank-separated tokens in every order
Reordered(unit) ==
    {Join(p, <<" ">>) : p \in Perms(Split(unit))}

\* the call in progress is breakdown of an expression without '/'
IsBreakdownOfTokens ==
    /\ call.op = "breakdown"
    /\ ~Contains(call.from, <<"/">>)

\* breakdown of the signature it returned gives that signature with factor 1
Idempotent ==
    breakdown(ret.val.sig) = Ok([factor |-> Float(One), sig |-> ret.val.sig])

\* C3: for every unit expression made of blank-separated tokens without '/'
\* that breakdown accepts and every permutation of those tokens, breakdown
\* returns the same signature and the same factor; and breakdown applied to
\* a signature it returned gives that signature unchanged with factor 1
C3_OrderInvariant ==
    (IsBreakdownOfTokens /\ ret.exc = "") =>
        /\ \A u \in Reordered(call.from) : breakdown(u) = ret
        /\ Idempotent

\* the sum of a sequence of integers
RECURSIVE SumSeq(_)
SumSeq(seq) ==
    IF seq = <<>> THEN 0 ELSE seq[1] + SumSeq(Tail(seq))

\* the tokens of a unit expression once its aliases and its division signs
\* are solved
TokensIn(unit) ==
    Split(solve_aliases(unit).val)

\* the name and the power a token of an SI base string or of a signature is
\* written with
Written(token) ==
    Decompose(token).val

\* the power of a base in the tokens of an SI base string
PowerInBases(bases, base) ==
    SumSeq([j \in 1..Len(bases) |->
               IF Written(bases[j]).basis = base THEN Written(bases[j]).power ELSE 0])

\* token power x power of the base in the token's SI base string, c being
\* the components of the token
PowerIn(c, base) ==
    c.power * PowerInBases(Split(c.basis), base)

\* the net power of a base in the tokens of a unit expression
NetPowerOver(tokens, base) ==
    SumSeq([i \in 1..Len(tokens) |-> PowerIn(components(tokens[i]).val, base)])

NetPower(unit, base) ==
    NetPowerOver(TokensIn(unit), base)

\* the SI base symbols the tokens are made of
BaseSymbolsOver(tokens) ==
    UNION {{Written(b).basis : b \in {Split(components(tokens[i]).val.basis)[j] :
                                          j \in 1..Len(Split(components(tokens[i]).val.basis))}} :
           i \in 1..Len(tokens)}

BaseSymbols(unit) ==
    BaseSymbolsOver(TokensIn(unit))

\* the net power of every base symbol of a unit expression that has one
NetPowers(unit) ==
    [base \in {b \in BaseSymbols(unit) : NetPower(unit, b) # 0} |-> NetPower(unit, base)]

\* unit expressions to compare the signature with: three of the same net
\* powers, one of none, one with a prefix
Peers ==
    { <<"e","r","g"," ","s","-","1"," ","c","m","-","2"," ","A","-","1">>,
      <<"W"," ","m","-","3">>,
      <<"k","g","1"," ","m","-","1"," ","s","-","3">>,
      <<"m"," ","m","-","1">>,
      <<"d","a","m">> }

\* C4: for every unit expression that breakdown accepts, the signature lists
\* each SI base symbol at most once, has no entry with power 0, is sorted in
\* ascending order, and gives each base symbol the sum over the tokens of
\* token power x power of the base in the token's SI base string; two
\* expressions get the same signature exactly when their net powers per
\* base symbol are equal
C4_Signature ==
    (call.op = "breakdown" /\ ret.exc = "") =>
        /\ \A k, l \in 1..Len(Split(ret.val.sig)) :
              k < l => /\ Written(Split(ret.val.sig)[k]).basis # Written(Split(ret.val.sig)[l]).basis
                       /\ StrLess(Split(ret.val.sig)[k], Split(ret.val.sig)[l])
        /\ \A k \in 1..Len(Split(ret.val.sig)) :
              /\ Written(Split(ret.val.sig)[k]).power # 0
              /\ Written(Split(ret.val.sig)[k]).power =
                     NetPower(call.from, Written(Split(ret.val.sig)[k]).basis)
        /\ \A base \in BaseSymbols(call.from) :
              NetPower(call.from, base) # 0 =>
                  \E k \in 1..Len(Split(ret.val.sig)) : Written(Split(ret.val.sig)[k]).basis = base
        /\ \A u \in Peers :
              breakdown(u).exc = "" =>
                  (breakdown(u).val.sig = ret.val.sig <=> NetPowers(u) = NetPowers(call.from))

\* breakdown('erg s-1 cm-2 A-1') has returned the signature 'kg1 m-1 s-3',
\* which 'W m-3' has too
C4_Witness ==
    /\ call.op = "breakdown"
    /\ call.from = <<"e","r","g"," ","s","-","1"," ","c","m","-","2"," ","A","-","1">>
    /\ ret.exc = ""
    /\ ret.val.sig = <<"k","g","1"," ","m","-","1"," ","s","-","3">>
    /\ breakdown(<<"W"," ","m","-","3">>).val.sig = ret.val.sig

\* the target unit of the element i of a batch: the one target unit given
\* for all the elements, or the i-th of the list
ToOf(tos, i) ==
    IF tos.isstr THEN tos.s ELSE tos.items[i]

\* convert called for the element i of the batch alone
Alone(i) ==
    convert(call.from[i], ToOf(call.to, i),
            [a \in 1..Len(call.args) |-> V(call.args[a][i])], call.kwargs)

\* the conversion error kinds: the unknown unit, the missing context and the
\* unknown jtype are raised as ValueError, the conversion with no entry of the
\* switch table as KeyError
ConversionError(r) ==
    r.exc \in {"ValueError", "KeyError"}

\* C5: a batch whose elements, converted alone, either succeed or fail with
\* a conversion error never aborts; its output holds NaN at every element
\* that fails and, at every other element, what convert returns for that
\* element alone.
C5_Isolation ==
    (/\ call.op = "nconvert"
     /\ \A i \in 1..Len(call.from) : Alone(i).exc = "" \/ ConversionError(Alone(i)))
    => /\ ret.exc = ""
       /\ \A i \in 1..Len(call.from) :
             IF Alone(i).exc # "" THEN IsNaN(ret.val.nom[i])
             ELSE ret.val.nom[i] = Alone(i).val.nom

\* the basis is a key of the base-unit table, or a metric prefix followed
\* by a key of the base-unit table
KnownBasis(basis) ==
    \/ \E r \in _factors_ : r.key = basis
    \/ \E i \in 1..Len(_scalings_) : \E r \in _factors_ : _scalings_[i].key \o r.key = basis

\* a token with basis letters, and these are not known
UnknownToken(token) ==
    /\ Decompose(token).exc = ""
    /\ ~KnownBasis(Written(token).basis)

\* some token of the unit expression is unknown
HasUnknown(unit) ==
    \E k \in 1..Len(TokensIn(unit)) : UnknownToken(TokensIn(unit)[k])

\* a known token of a linear unit
KnownLinear(token) ==
    /\ Decompose(token).exc = ""
    /\ \E r \in _factors_ : \E i \in 0..Len(_scalings_) :
          /\ r.cls = "float"
          /\ (IF i = 0 THEN <<>> ELSE _scalings_[i].key) \o r.key = Written(token).basis

\* the first token of the unit expression that is not a known token of a
\* linear unit is an unknown one
UnknownFirst(unit) ==
    \E k \in 1..Len(TokensIn(unit)) :
       /\ UnknownToken(TokensIn(unit)[k])
       /\ \A j \in 1..(k - 1) : KnownLinear(TokensIn(unit)[j])

\* the units of the context quantities given as (value, unit) or
\* (value, error, unit)
ContextUnits ==
    {call.kwargs[k].s : k \in {k \in DOMAIN call.kwargs :
                                  call.kwargs[k].kind \in {"tuple2", "tuple3"}}}

UnknownUnit ==
    ret = Raise("ValueError", "Unknown unit")

\* the unknown-unit error as the claim has it: whenever the unit given to
\* components, to breakdown or to convert, for the source, the target or a
\* context quantity, has an unknown token
C6_AnyUnknown ==
    /\ (call.op = "components" /\ UnknownToken(call.from)) => UnknownUnit
    /\ (call.op = "breakdown" /\ HasUnknown(call.from)) => UnknownUnit
    /\ (/\ call.op \in {"convert", "convert_back"}
        /\ \/ HasUnknown(Stripped(call.from))
           \/ HasUnknown(Stripped(call.to))
           \/ \E u \in ContextUnits : HasUnknown(u)) => UnknownUnit

\* C6: components fails with the unknown-unit error for every token whose
\* basis is neither a key of the base-unit table nor a prefix followed by
\* one.  breakdown, and convert called with one or two values, return no
\* value for a source unit, a target unit other than 'SI' or a context unit
\* with such a token, and the error is the unknown-unit error when the
\* unknown token is the first thing to fail: it is preceded by known tokens
\* of linear units only, the source unit is accepted if the token is in the
\* target unit, the source and the target are accepted and every context
\* unit is either linear or has such a token if it is in a context unit.
C6_UnknownUnit ==
    /\ (call.op = "components" /\ UnknownToken(call.from)) => UnknownUnit
    /\ (call.op = "breakdown" /\ HasUnknown(call.from)) => ret.exc # ""
    /\ (call.op = "breakdown" /\ UnknownFirst(call.from)) => UnknownUnit
    /\ (/\ IsConvert
        /\ \/ HasUnknown(Stripped(call.from))
           \/ Stripped(call.to) # SI /\ HasUnknown(Stripped(call.to))
           \/ \E u \in ContextUnits : HasUnknown(u)) => ret.exc # ""
    /\ (IsConvert /\ UnknownFirst(Stripped(call.from))) => UnknownUnit
    /\ (/\ IsConvert
        /\ breakdown(Stripped(call.from)).exc = ""
        /\ Stripped(call.to) # SI
        /\ UnknownFirst(Stripped(call.to))) => UnknownUnit
    /\ (/\ IsConvert
        /\ breakdown(Stripped(call.from)).exc = ""
        /\ Stripped(call.to) = SI \/ breakdown(Stripped(call.to)).exc = ""
        /\ \E u \in ContextUnits : UnknownFirst(u)
        /\ \A u \in ContextUnits :
              UnknownFirst(u) \/ \A k \in 1..Len(TokensIn(u)) : KnownLinear(TokensIn(u)[k]))
       => UnknownUnit

\* convert('m', 'xy', 1.) and convert('m', 'km', 1., wave=(1., 'xy')) have
\* failed with the unknown-unit error
C6_Witness ==
    /\ call.op = "convert"
    /\ Len(call.args) = 1
    /\ call.from = <<"m">>
    /\ \/ call.to = <<"x","y">>
       \/ \E u \in ContextUnits : u = <<"x","y">>
    /\ UnknownUnit

\* the passband given is in neither of the calibration data: there is no
\* response curve and there are no zeropoints for it
AbsentPassband ==
    /\ HasKey(call.kwargs, "photband")
    /\ call.kwargs["photband"].kind = "str"
    /\ \A r \in response_files \cup zeropoints : r.photband # Upper(call.kwargs["photband"].s)

\* the conversion uses the passband: the source unit is a magnitude or a
\* colour, or the signatures differ and the switch function has the
\* passband only to find its reference wavelength
UsesPassband ==
    /\ breakdown(Stripped(call.from)).exc = ""
    /\ \/ breakdown(Stripped(call.from)).val.factor.cls \in {"VegaMag", "ABMag", "STMag", "Color"}
       \/ /\ ~HasKey(call.kwargs, "wave") /\ ~HasKey(call.kwargs, "freq")
          /\ breakdown(Stripped(call.to)).exc = ""
          /\ breakdown(Stripped(call.to)).val.sig # breakdown(Stripped(call.from)).val.sig

\* C7: a conversion that uses a passband that is absent from the
\* calibration data fails; it returns no value, and no not-a-number.
C7_UnknownPassband ==
    (IsConvert /\ AbsentPassband /\ UsesPassband) => ret.exc # ""

\* the source and the target unit of the call broken down
SourceUnit ==
    breakdown(Stripped(call.from))

TargetUnit ==
    breakdown(Stripped(call.to))

\* the value the call starts from
StartValue ==
    With([value \in {IF Len(call.args) = 1 THEN call.args[1]
                     ELSE uarray(call.args[1].nom, call.args[2].nom)} |->
    IF Brackets(call.from).found THEN VPow10(value) ELSE value])

\* the context of the call in SI units, with its defaults
ContextSI ==
    Then([kwargs_SI \in {KwargsLoop(DelKw(call.kwargs, "unpack"),
                                    KwIter(DelKw(call.kwargs, "unpack")), NoKwargs)} |->
    DefaultContext(SourceUnit.val.factor, SourceUnit.val.sig, TargetUnit.val.sig,
                   StartValue, kwargs_SI.val)])

\* the signed delta of the two signatures that is left over
Delta ==
    LeftOver(SourceUnit.val.sig, TargetUnit.val.sig)

\* what remains of it after the extraction of the (ste)radians
Remains ==
    IF RadKey(Delta.val) = <<>> THEN Delta.val
    ELSE Replace(Delta.val, RadKey(Delta.val), <<>>)

\* there are no (ste)radians to extract, or their switch function has
\* returned and the factor of the source unit has been applied
RadDone ==
    \/ RadKey(Delta.val) = <<>>
    \/ /\ IsFloat(SourceUnit.val.factor)
       /\ \E r \in _switch_ :
             /\ r.key = RadKey(Delta.val) \o <<"_","t","o","_">>
             /\ CallSwitch(r.fn, StartValue, ContextSI.val).exc = ""

\* convert has come to the look-up of what is left over in the switch table
AtLookup ==
    /\ IsConvert
    /\ Stripped(call.to) # SI
    /\ SourceUnit.exc = ""
    /\ TargetUnit.exc = ""
    /\ SourceUnit.val.sig # TargetUnit.val.sig
    /\ ContextSI.exc = ""
    /\ Delta.exc = ""
    /\ RadDone
    /\ Remains # <<>>

\* C8: when the signatures differ and something remains of the leftover
\* signed delta after the extraction of the (ste)radians, convert fails with
\* the KeyError of the switch table, returning no value, exactly when what
\* remains followed by '_to_' (the target part empty) is not a key of the
\* switch table.
C8_Unsupported ==
    AtLookup =>
       (ret = Raise("KeyError", "no definition in dict _switch")
        <=> \A r \in _switch_ : r.key # Remains \o <<"_","t","o","_">>)

\* convert('m', 's', 1.) and convert('W/m2/sr', 'm', 1., ang_diam=(2., 'deg'))
\* have failed with the KeyError
C8_Witness ==
    /\ AtLookup
    /\ call.from = <<"m">> \/ RadKey(Delta.val) # <<>>
    /\ ret.exc = "KeyError"

\* the source unit is a magnitude or a colour, whose converter needs the
\* passband
PassbandLeaf ==
    /\ SourceUnit.exc = ""
    /\ SourceUnit.val.factor.cls \in {"VegaMag", "ABMag", "STMag", "Color"}

\* the switch function selected needs a wavelength, a frequency or an
\* angular size, and the context has none, not even by default
SwitchNeedsContext ==
    /\ SourceUnit.exc = ""
    /\ Stripped(call.to) # SI
    /\ TargetUnit.exc = ""
    /\ SourceUnit.val.sig # TargetUnit.val.sig
    /\ IsFloat(SourceUnit.val.factor)
    /\ ContextSI = Ok(NoKwargs)
    /\ Delta.exc = ""
    /\ \/ RadKey(Delta.val) \in {<<"r","a","d","2">>, <<"r","a","d","-","2">>}
       \/ /\ RadKey(Delta.val) = <<>>
          /\ \E r \in _switch_ : /\ r.key = Delta.val \o <<"_","t","o","_">>
                                 /\ r.fn \notin {"per_cy", "times_cy"}

\* C9: a call that gives no context at all, whose magnitude or colour
\* converter or whose switch function needs one that the default-context
\* rule has not filled in, fails with the one missing-context error kind,
\* the ValueError of the switch functions.
C9_MissingContext ==
    (IsConvert /\ call.kwargs = NoKwargs /\ (PassbandLeaf \/ SwitchNeedsContext))
    => ret.exc = "ValueError"


ArityError ==
    Raise("ValueError", "illegal input")

\* C10: convert called with no positional value, or with three or more,
\* fails with the arity error whatever the units are, those that cannot be
\* parsed included; called with one value or with a value and its
\* uncertainty it does not fail with the arity error.
C10_Arity ==
    call.op = "convert" =>
       IF Len(call.args) \in {1, 2} THEN ret # ArityError ELSE ret = ArityError

\* convert('xy', 'm') and convert('xy', 'm', 1., 0.1, 1.), of a unit that
\* cannot be parsed, have failed with the arity error
C10_Witness ==
    /\ call.op = "convert"
    /\ Len(call.args) \in {0, 3}
    /\ call.from = <<"x","y">>
    /\ ret = ArityError

\* some context entry of the call carries an uncertainty
ContextUncertain ==
    \E k \in DOMAIN call.kwargs : call.kwargs[k].kind = "tuple3"

\* C11: convert, called without the keyword unpack, returns a pair
\* (nominal value, standard deviation) exactly when it was given two
\* positional values, or one and a context entry with an uncertainty; in
\* every other case it returns one value of the kind of the input, a float
\* for a float and an uncertainty object for an uncertainty object.
C11_Shape ==
    (IsConvert /\ ret.exc = "" /\ ~HasKey(call.kwargs, "unpack")) =>
       IF Len(call.args) = 2 \/ ContextUncertain
       THEN ret.val.shape = "tuple"
       ELSE ret.val.shape = call.args[1].shape

\* the source or the target unit of the call is in brackets
Logarithmic ==
    Brackets(call.from).found \/ Brackets(call.to).found

\* convert of the units without their brackets, for ten to the power of the
\* value if the source unit is in brackets
Plain ==
    convert(Stripped(call.from), Stripped(call.to),
            IF Brackets(call.from).found
            THEN [i \in 1..Len(call.args) |-> VPow10(call.args[i])]
            ELSE call.args,
            call.kwargs)

\* C12: for one value x, convert('[A]', B, x) = convert(A, B, 10^x),
\* convert(A, '[B]', x) = log10(convert(A, B, x)) and convert('[A]', '[B]', x)
\* = log10(convert(A, B, 10^x)): the power of ten is taken before the
\* conversion, the logarithm after it and only for a target in brackets.
C12_Logarithmic ==
    (IsConvert /\ Len(call.args) = 1 /\ Logarithmic) =>
       ret = IF Plain.exc # "" \/ ~Brackets(call.to).found THEN Plain
             ELSE Ok(VLog10(Plain.val))

\* convert('[m]', '[km]', 1.) has returned -2 and convert('[C]', 'K', 1.)
\* has returned 283.15
C12_Witness ==
    /\ IsConvert
    /\ Len(call.args) = 1
    /\ \/ /\ call.from = <<"[","m","]">> /\ call.to = <<"[","k","m","]">>
          /\ ret = Ok(V(Int2Num(-2)))
       \/ /\ call.from = <<"[","C","]">>
          /\ ret = Ok(V(Dec(28315, -2)))

\* the call converts back to a calendar date the Julian date of a calendar
\* date
IsDateBack ==
    /\ call.op = "convert_back"
    /\ call.to = <<"C","D">>
    /\ Len(call.origin) = 1
    /\ call.origin[1].shape = "date"

\* C13: a calendar date converted to its Julian date and back is the same
\* year, month and fractional day, the month in 1..12 and the day in
\* [1, days of the month + 1).
C13_CalendarRoundTrip ==
    IsDateBack =>
       /\ ret.exc = ""
       /\ ret.val.shape = "date"
       /\ ret.val.nom = call.origin[1].nom
       /\ ToInt(ret.val.nom[2]) \in 1..12
       /\ ToInt(Mul(ret.val.nom[3], Int2Num(4))) >= 4
       /\ ToInt(Mul(ret.val.nom[3], Int2Num(4)))
             < 4 * (DaysIn(ToInt(ret.val.nom[1]), ToInt(ret.val.nom[2])) + 1)

\* the offsets of the Modified Julian Day, by the type of the date
Offsets ==
    { [jtype |-> <<"C","O","R","O","T">>, offset |-> Int2Num(2451545)],
      [jtype |-> <<"H","I","P">>, offset |-> Int2Num(2440000)],
      [jtype |-> <<"M","J","D">>, offset |-> Dec(24000005, -1)] }

\* the type of the date the call gives, 'MJD' when it gives none, in capitals
Jtype ==
    IF HasKey(call.kwargs, "jtype") THEN Upper(call.kwargs["jtype"].s)
    ELSE <<"M","J","D">>

\* the offset of the type of the date the call gives, if it has one
OffsetOf(jtype) ==
    {r.offset : r \in {o \in Offsets : o.jtype = jtype}}

\* the call converts one number between 'MJD' and 'JD', with no context but
\* a jtype
IsModJulian ==
    /\ call.op \in {"convert", "convert_back"}
    /\ {call.from, call.to} = {<<"M","J","D">>, <<"J","D">>}
    /\ Len(call.args) = 1
    /\ call.args[1].shape = "float"
    /\ (DOMAIN call.kwargs) \subseteq {"jtype"}

\* C14: for jtype COROT, HIP or MJD in any letter case, and MJD when there is
\* none, 'MJD' -> 'JD' adds the offset 2451545, 2440000 or 2400000.5 of the
\* jtype and 'JD' -> 'MJD' subtracts it, so that the value converted back is
\* the value given; any other jtype makes convert raise.
C14_ModJulianDay ==
    IsModJulian =>
        IF OffsetOf(Jtype) = {} THEN ret.exc # ""
        ELSE /\ ret.exc = ""
             /\ ret.val.shape = "float"
             /\ \A offset \in OffsetOf(Jtype) :
                   ret.val.nom = IF call.from = <<"M","J","D">>
                                 THEN Add(call.args[1].nom, offset)
                                 ELSE Sub(call.args[1].nom, offset)
             /\ call.op = "convert_back" => ret.val.nom = call.origin[1].nom

\* convert('JD', 'MJD', convert('MJD', 'JD', 2., jtype='Hip'), jtype='Hip')
\* has returned 2.
C14_Witness ==
    /\ call.op = "convert_back"
    /\ call.to = <<"M","J","D">>
    /\ call.kwargs = ("jtype" :> KwStr(<<"H","i","p">>))
    /\ call.args = <<V(Int2Num(2440002))>>
    /\ ret = Ok(V(Int2Num(2)))

\* the length of the run of digits s ends with
TrailingDigits(s) ==
    Max({k \in 0..Len(s) : \A i \in (Len(s) - k + 1)..Len(s) : IsDigit(s[i])})

\* a token read as (optional numeric factor)(basis)(optional signed integer
\* exponent): the factor 1 and the exponent 1 when there is none
Read(token) ==
    LET f == DigitRun(token, 1)
        e == TrailingDigits(token)
        signed == e > 0 /\ Len(token) > e /\ token[Len(token) - e] = "-"
        last == Len(token) - e - (IF signed THEN 1 ELSE 0)
        digits == ParseInt(SubSeq(token, Len(token) - e + 1, Len(token)))
    IN  [factor |-> IF f = 0 THEN 1 ELSE ParseInt(SubSeq(token, 1, f)),
         basis |-> SubSeq(token, f + 1, last),
         power |-> IF e = 0 THEN 1 ELSE IF signed THEN -digits ELSE digits]

\* the token has that form, its basis made of letters
WellFormed(token) ==
    /\ DigitRun(token, 1) < Len(token)
    /\ Read(token).basis # <<>>
    /\ \A i \in 1..Len(Read(token).basis) :
          /\ ~IsDigit(Read(token).basis[i])
          /\ Read(token).basis[i] \notin {"-", "+", "/", " "}

\* the parts of the groups of a unit expression, its aliases resolved:
\* the group, the place in the group and the part
Parts(unit) ==
    LET groups == Split(ApplyAliases(unit, _aliases, 1))
    IN  Ravel([g \in 1..Len(groups) |->
                  [j \in 1..Len(SplitOn(groups[g], "/")) |->
                      [group |-> g, place |-> j, part |-> SplitOn(groups[g], "/")[j]]]])

\* solve_aliases has been called with a unit expression that has a division
\* sign
IsDivision ==
    /\ call.op = "solve_aliases"
    /\ Contains(ApplyAliases(call.from, _aliases, 1), <<"/">>)

\* every part after a division sign is well formed
Divisible(unit) ==
    \A i \in 1..Len(Parts(unit)) :
        Parts(unit)[i].place > 1 => WellFormed(Parts(unit)[i].part)

\* C15: in solve_aliases every part after a '/' of a group gets its exponent
\* negated and keeps its integer factor, the part before the first '/' and
\* the tokens of every other group are left as they are, and the output has
\* no '/'; '10mW m-2/nm' converts like '10mW m-2 nm-1'.
C15_Division ==
    /\ (IsDivision /\ Divisible(call.from)) =>
          /\ ret.exc = ""
          /\ ~Contains(ret.val, <<"/">>)
          /\ Len(Split(ret.val)) = Len(Parts(call.from))
          /\ \A i \in 1..Len(Parts(call.from)) :
                IF Parts(call.from)[i].place = 1
                THEN Split(ret.val)[i] = Parts(call.from)[i].part
                ELSE Read(Split(ret.val)[i]) =
                        [Read(Parts(call.from)[i].part) EXCEPT !.power = -@]
    /\ (IsConvert /\ call.from = <<"1","0","m","W"," ","m","-","2","/","n","m">>) =>
          ret = convert(<<"1","0","m","W"," ","m","-","2"," ","n","m","-","1">>,
                        call.to, call.args, call.kwargs)

\* solve_aliases('erg/s/cm2/A') has returned 'erg s-1 cm-2 A-1'
C15_Witness ==
    /\ call.op = "solve_aliases"
    /\ call.from = <<"e","r","g","/","s","/","c","m","2","/","A">>
    /\ ret = Ok(<<"e","r","g"," ","s","-","1"," ","c","m","-","2"," ","A","-","1">>)

\* nonlinear units written with a metric prefix: the unit, the unit without
\* the prefix and the scale of the prefix
Prefixed ==
    { [unit |-> <<"k","F">>, bare |-> <<"F">>, scale |-> Dec(1, 3)],
      [unit |-> <<"d","C">>, bare |-> <<"C">>, scale |-> Dec(1, -1)],
      [unit |-> <<"m","A","m","a","g">>, bare |-> <<"A","m","a","g">>, scale |-> Dec(1, -3)],
      [unit |-> <<"k","m","a","g">>, bare |-> <<"m","a","g">>, scale |-> Dec(1, 3)] }

\* the call converts one number from or to a nonlinear unit with a prefix
FromPrefixed ==
    /\ IsConvert
    /\ Len(call.args) = 1
    /\ call.args[1].shape = "float"
    /\ \E p \in Prefixed : p.unit = call.from

ToPrefixed ==
    /\ IsConvert
    /\ Len(call.args) = 1
    /\ call.args[1].shape = "float"
    /\ \E p \in Prefixed : p.unit = call.to

\* C16: for a nonlinear unit U and a metric prefix p of scale k,
\* convert('pU', T, x) = convert('U', T, k * x) and
\* convert(S, 'pU', y) = convert(S, 'U', y) / k.
C16_Prefix ==
    /\ FromPrefixed =>
          \A p \in Prefixed : p.unit = call.from =>
             ret = convert(p.bare, call.to, <<VMul(V(p.scale), call.args[1])>>, call.kwargs)
    /\ ToPrefixed =>
          \A p \in Prefixed : p.unit = call.to =>
             LET bare == convert(call.from, p.bare, call.args, call.kwargs)
             IN  IF bare.exc # "" THEN ret = bare
                 ELSE ret = Ok(VDiv(bare.val, V(p.scale)))

\* the context mapping is one the caller gave with these two units
CallerContext(c) ==
    \E inp \in ConvertInputs :
        /\ {inp.from, inp.to} = {c.from, c.to}
        /\ inp.kwargs = c.kwargs

\* the step leaves the four registries as they were made, and the context
\* mapping of the caller of convert as the caller made it
Kept17 ==
    /\ _factors' = _factors_
    /\ _aliases' = _aliases_
    /\ _switch' = _switch_
    /\ _scalings' = _scalings
    /\ call'.op \in {"convert", "convert_back"} => CallerContext(call')

IndexBands ==
    { [photband |-> Stromgren("M") \o <<"1">>,
       first |-> Stromgren("V"), twice |-> Stromgren("B"), last |-> Stromgren("Y")],
      [photband |-> Stromgren("C") \o <<"1">>,
       first |-> Stromgren("U"), twice |-> Stromgren("V"), last |-> Stromgren("B")] }

\* the call converts one number between 'mag_color' and 'flux_ratio' for the
\* passband of a Stromgren index
IsIndex ==
    /\ IsConvert
    /\ Len(call.args) = 1
    /\ call.args[1].shape = "float"
    /\ {call.from, call.to} = {<<"m","a","g","_","c","o","l","o","r">>,
                               <<"f","l","u","x","_","r","a","t","i","o">>}
    /\ DOMAIN call.kwargs = {"photband"}
    /\ \E i \in IndexBands : call.kwargs["photband"] = KwStr(i.photband)

\* the flux of a magnitude and the magnitude of a flux in a passband
FluxOf(mag, photband) ==
    convert(Mag, SI, <<mag>>, "photband" :> KwStr(photband)).val

MagOf(flux, photband) ==
    convert(Wm3, Mag, <<flux>>, "photband" :> KwStr(photband)).val

\* C18: for the photbands STROMGREN.M1 and STROMGREN.C1 both directions of
\* the colour conversion return a value: the forward one the flux ratio
\* fv*fy/fb^2 (M1) or fu*fb/fv^2 (C1), the inverse one the index v-2b+y (M1)
\* or u-2v+b (C1) of three magnitudes, which is the value the flux ratio was
\* made from.
C18_Stromgren ==
    IsIndex =>
       \A i \in IndexBands : call.kwargs["photband"] = KwStr(i.photband) =>
          /\ ret.exc = ""
          /\ IF call.from = <<"m","a","g","_","c","o","l","o","r">>
             THEN ret.val = VDiv(VMul(FluxOf(call.args[1], i.first), FluxOf(V(Zero), i.last)),
                                 VPow(FluxOf(V(Zero), i.twice), 2))
             ELSE ret.val = VAdd(VSub(MagOf(call.args[1], i.first),
                                      VMul(V(Int2Num(2)), MagOf(V(One), i.twice))),
                                 MagOf(V(One), i.last))
          /\ call.op = "convert_back" => ret.val.nom = call.origin[1].nom

\* the magnitude systems: the unit, the column of the zero-point magnitude
\* and the reference flux F0 of a row of the calibration table
Systems ==
    {<<"m","a","g">>, <<"v","e","g","a","m","a","g">>, <<"A","B","m","a","g">>,
     <<"S","T","m","a","g">>}

ZeroPoint(unit, row) ==
    IF unit = <<"A","B","m","a","g">> THEN row.ABmag
    ELSE IF unit = <<"S","T","m","a","g">> THEN row.STmag
    ELSE row.vegamag

ReferenceFlux(unit, row) ==
    IF unit = <<"A","B","m","a","g">> THEN V(Sym("F0AB"))
    ELSE IF unit = <<"S","T","m","a","g">> THEN V(Sym("F0ST"))
    ELSE convert(row.Flam0_units, Wm3, <<V(row.Flam0)>>, NoKwargs).val

\* the rows of the calibration table for the passband of the call
Rows ==
    IF DOMAIN call.kwargs = {"photband"} /\ call.kwargs["photband"].kind = "str"
    THEN {r \in zeropoints : r.photband = Upper(call.kwargs["photband"].s)}
    ELSE {}

\* the call converts one magnitude of a passband of the table to SI, or
\* converts back to a magnitude the flux, in a unit of flux, of a magnitude
IsMagnitude ==
    /\ IsConvert
    /\ Len(call.args) = 1
    /\ call.args[1].shape = "float"
    /\ Rows # {}
    /\ \/ call.op = "convert" /\ call.from \in Systems /\ call.to = SI
       \/ /\ call.op = "convert_back" /\ call.to \in Systems
          /\ call.from \in {<<"J","y">>, <<"e","r","g","/","s","/","c","m","2","/","A">>}

\* C19: for VegaMag, ABMag and STMag and every passband of the calibration
\* table with zero-point magnitude mag0, the forward conversion of mag is
\* F0 * 10^(-(mag - mag0)/2.5).
C19_ForwardFormula ==
    (IsMagnitude /\ call.op = "convert") =>
       \A row \in Rows : ~IsNaN(ZeroPoint(call.from, row)) =>
          ret = Ok(VMul(VPow10(VDiv(VNeg(VSub(call.args[1], V(ZeroPoint(call.from, row)))),
                                    Mag25)),
                        ReferenceFlux(call.from, row)))

\* C20: for VegaMag, ABMag and STMag, every passband of the calibration
\* table and every magnitude m, the flux of m converted back under the same
\* photband is m.
C20_Invertible ==
    (IsMagnitude /\ call.op = "convert_back") =>
       /\ ret.exc = ""
       /\ ret.val.nom = call.origin[1].nom

\* C21: a passband whose zero-point magnitude is not-a-number is treated as
\* mag0 = 0 by VegaMag, ABMag and STMag: the forward conversion of a
\* magnitude is not not-a-number and is that of a passband with the same F0
\* and mag0 = 0.
C21_NaNZeroPoint ==
    (IsMagnitude /\ call.op = "convert") =>
       \A row \in Rows : IsNaN(ZeroPoint(call.from, row)) =>
          /\ ret.exc = ""
          /\ ~IsNaN(ret.val.nom)
          /\ \A other \in zeropoints :
                (ZeroPoint(call.from, other) = Zero
                 /\ ReferenceFlux(call.from, other) = ReferenceFlux(call.from, row)) =>
                    ret = convert(call.from, call.to, call.args,
                                  "photband" :> KwStr(other.photband))

\* the token starts with a prefactor in scientific notation: MM, e or E, a
\* sign and EE, or MM, a sign and EE
ESci(unit) ==
    SciE(unit) /\ unit[3] \in {"e", "E"}

HasPrefactor(unit) ==
    ESci(unit) \/ SciPlain(unit)

\* the number of characters of the prefactor
PrefactorLen(unit) ==
    IF SciPlain(unit) THEN 5 ELSE 6

\* MM * 10^(+-EE)
PrefactorOf(unit) ==
    With([n \in {PrefactorLen(unit)} |->
    Mul(Int2Num(ParseInt(SubSeq(unit, 1, 2))),
        Dec(1, IF unit[n - 2] = "-" THEN -ParseInt(SubSeq(unit, n - 1, n))
               ELSE ParseInt(SubSeq(unit, n - 1, n))))])

\* the token without its prefactor
AfterPrefactor(unit) ==
    SubSeq(unit, PrefactorLen(unit) + 1, Len(unit))

\* components has been called with a token whose prefactor is followed by
\* a token of a linear unit
IsPrefactored ==
    /\ call.op = "components"
    /\ HasPrefactor(call.from)
    /\ AfterPrefactor(call.from) # <<>>
    /\ components(AfterPrefactor(call.from)).exc = ""
    /\ IsFloat(components(AfterPrefactor(call.from)).val.factor)

\* C22: for a token that starts with MM, e or E, a sign and EE, or with MM, a
\* sign and EE, components returns the basis and the power of the rest of
\* the token, and the factor of the rest multiplied by MM * 10^(+-EE).
C22_Prefactor ==
    IsPrefactored =>
       With([rest \in {components(AfterPrefactor(call.from)).val} |->
       ret = Ok([rest EXCEPT !.factor = Float(Mul(PrefactorOf(call.from), rest.factor.prefix))])])

\* the prefixes that split the basis into a prefix and a key of the
\* base-unit table
SplitsOf(basis) ==
    {i \in 1..Len(_scalings_) :
        /\ StartsWith(basis, _scalings_[i].key)
        /\ InFactors(SubSeq(basis, Len(_scalings_[i].key) + 1, Len(basis)))}

\* the longest of them
LongestOf(basis) ==
    CHOOSE i \in SplitsOf(basis) :
       \A j \in SplitsOf(basis) : Len(_scalings_[j].key) <= Len(_scalings_[i].key)

\* the factor and the SI base unit of a basis resolved with the prefix of
\* scale 10^exp followed by key
Resolved(exp, key, ret_value) ==
    \E row \in FactorsAt(key) :
       /\ ret_value.basis = row.si
       /\ IsFloat(ret_value.factor) =>
             ret_value.factor.prefix = Mul(Mul(Written(call.from).factor, Dec(1, exp)), FactorOf(row))

\* components has decomposed a token whose basis is a key of the base-unit
\* table or can be split
IsResolved ==
    /\ call.op = "components"
    /\ Decompose(call.from).exc = ""
    /\ InFactors(Written(call.from).basis) \/ SplitsOf(Written(call.from).basis) # {}

\* C23: a basis that is a key of the base-unit table is never split, and of
\* the splits of another basis into a prefix and a key the one with the
\* longest prefix is taken, whatever the order in which the prefix table is
\* iterated.
C23_LongestPrefix ==
    IsResolved =>
       With([basis \in {Written(call.from).basis} |->
       /\ ret.exc = ""
       /\ IF InFactors(basis) THEN Resolved(0, basis, ret.val)
          ELSE With([scale \in {_scalings_[LongestOf(basis)]} |->
               Resolved(scale.exp, SubSeq(basis, Len(scale.key) + 1, Len(basis)), ret.val)])])

\* C24: solve_aliases fails, returning no unit expression, whenever a part
\* after a '/' is not of the form (optional numeric factor)(basis
\* letters)(optional signed integer exponent): an empty part or a bare
\* number is never passed on as a token.
C24_Malformed ==
    (IsDivision /\ ~Divisible(call.from)) => ret.exc # ""

\* convert has come to the defaults of the context: the source unit, the
\* target unit and the context of the caller are accepted
AtDefaults ==
    /\ IsConvert
    /\ Len(call.args) \in {1, 2}
    /\ Stripped(call.to) # SI
    /\ SourceUnit.exc = ""
    /\ TargetUnit.exc = ""
    /\ ContextSI.exc = ""

\* the caller has supplied the key
Supplied(key) ==
    key \in DOMAIN call.kwargs

\* the entry of the context is the value of the caller in SI units
AsSupplied(key) ==
    /\ HasKey(ContextSI.val, key)
    /\ ContextSI.val[key] = EntrySI(call.kwargs[key]).val

\* the entry of the context is the input value times the factor of the
\* source unit
AsInferred(key) ==
    /\ HasKey(ContextSI.val, key)
    /\ FMulV(SourceUnit.val.factor, StartValue).exc = ""
    /\ ContextSI.val[key] = SINum(FMulV(SourceUnit.val.factor, StartValue).val)

\* the signature that lets the key be inferred
SignatureFor(key) ==
    IF key = "wave" THEN <<"m", "1">> ELSE <<"c", "y", "1", " ", "s", "-", "1">>

\* C25: the context gets wave = facFrom * value only when the signatures
\* differ, the signature of the source is 'm1' and the caller gave no wave,
\* and freq = facFrom * value only when the signatures differ, the
\* signature of the source is 'cy1 s-1' and the caller gave no freq; a wave
\* or a freq of the caller is never overwritten, and nothing is inferred
\* when the signatures are equal.
C25_DefaultContext ==
    AtDefaults =>
       \A key \in {"wave", "freq"} :
          /\ Supplied(key) => AsSupplied(key)
          /\ (~Supplied(key) /\ HasKey(ContextSI.val, key)) =>
                /\ SourceUnit.val.sig # TargetUnit.val.sig
                /\ SourceUnit.val.sig = SignatureFor(key)
                /\ AsInferred(key)

\* the context of the caller without the unpack flag
CallerKwargs ==
    DelKw(call.kwargs, "unpack")

\* the context after the loop that brings it to SI units
KwargsSI ==
    KwargsLoop(CallerKwargs, KwIter(CallerKwargs), NoKwargs)

\* convert has come to that loop
AtKwargs ==
    /\ IsConvert
    /\ Len(call.args) \in {1, 2}
    /\ SourceUnit.exc = ""
    /\ Stripped(call.to) = SI \/ TargetUnit.exc = ""

\* convert(unit, 'SI', value) or convert(unit, 'SI', value, error) of a
\* tuple of the context
EntryConverted(entry) ==
    convert(entry.s, SI, IF entry.kind = "tuple2" THEN <<V(entry.val)>>
                         ELSE <<V(entry.val), V(entry.err)>>, NoKwargs)

\* the entry of the context is the value and the error that convert gave
IsConverted(si, r) ==
    /\ si.kind = "num"
    /\ si.v.nom = r.nom
    /\ si.v.std = r.std

\* C26: every (value, unit) or (value, error, unit) of the context is
\* replaced by what convert(unit, 'SI', value[, error]) returns, for a
\* nonlinear or a bracketed unit too, and every other entry is passed on
\* as it is.
C26_ContextSI ==
    AtKwargs =>
       \A key \in DOMAIN CallerKwargs :
          With([entry \in {CallerKwargs[key]} |->
          IF entry.kind \in {"tuple2", "tuple3"}
          THEN EntryConverted(entry).exc = "" =>
                  /\ KwargsSI.exc = ""
                  /\ IsConverted(KwargsSI.val[key], EntryConverted(entry).val)
          ELSE KwargsSI.exc = "" =>
                  KwargsSI.val[key] = (IF entry.kind = "float" THEN SINum(V(entry.val))
                                       ELSE IF entry.kind = "str" THEN SIStr(entry.s)
                                       ELSE SIBool(entry.b))])

\* the power of rad in a signature, 0 if it has none
RadPower(sig) ==
    SumSeq([j \in 1..Len(Split(sig)) |->
               IF Written(Split(sig)[j]).basis = <<"r","a","d">>
               THEN Written(Split(sig)[j]).power ELSE 0])

\* the power of rad in the delta of the source and the target
RadDelta ==
    RadPower(SourceUnit.val.sig) - RadPower(TargetUnit.val.sig)

\* the transform of a power of rad
RadTransform(power) ==
    CASE power = 2 -> "per_sr"
      [] power = -2 -> "times_sr"
      [] power = 1 -> "per_cy"
      [] power = -1 -> "times_cy"

\* convert has the delta of two different signatures to bridge, the factor
\* of the source unit being a number
AtDispatch ==
    /\ IsConvert
    /\ Len(call.args) \in {1, 2}
    /\ Stripped(call.to) # SI
    /\ SourceUnit.exc = ""
    /\ IsFloat(SourceUnit.val.factor)
    /\ TargetUnit.exc = ""
    /\ SourceUnit.val.sig # TargetUnit.val.sig
    /\ ContextSI.exc = ""
    /\ Delta.exc = ""

\* the final step, the logarithm and the unpacking of a value in SI units
Finished(ret_value) ==
    ConvertTarget(Brackets(call.to), TargetUnit.val, ContextSI.val, ret_value,
                  IF HasKey(call.kwargs, "unpack") THEN call.kwargs["unpack"].b ELSE TRUE,
                  Len(call.args))

\* what is looked up in the switch table, called with the value and the
\* factor; nothing is looked up for an empty key
LookedUp(key, factor, value) ==
    IF key = <<>> THEN Ok(value)
    ELSE IF \A r \in _switch_ : r.key # key \o To_
    THEN Raise("KeyError", "no definition in dict _switch")
    ELSE Then([a \in {FMulV(factor, value)} |->
         CallSwitch((CHOOSE r \in _switch_ : r.key = key \o To_).fn, a.val, ContextSI.val)])

\* the transform of the power of rad applied once to the input value, the
\* factor of the source unit applied to what it gives, and what is left of
\* the delta without the rad looked up with a factor of 1
Extracted(power) ==
    Then([r \in {CallSwitch(RadTransform(power), StartValue, ContextSI.val)} |->
    Then([a \in {FMulV(SourceUnit.val.factor, r.val)} |->
    LookedUp(Replace(Delta.val, <<"r","a","d">> \o IntToStr(power), <<>>),
             Float(One), a.val)])])

\* C27: when the delta of the signatures has rad to the power 2, -2, 1 or -1,
\* per_sr, times_sr, per_cy or times_cy is applied once to the input value
\* before anything is looked up in the switch table, the factor of the
\* source unit is applied to what it gives and is 1 from then on, and what
\* is left of the delta, without the rad, is looked up in the switch table;
\* for any other power of rad no such transform is applied and the whole
\* delta is looked up.
C27_Radians ==
    AtDispatch =>
       ret = Finished(IF RadDelta \in {2, -2, 1, -1} THEN Extracted(RadDelta)
                      ELSE LookedUp(Delta.val, SourceUnit.val.factor, StartValue))

\* the signature of the target unit, that of the source unit for 'SI'
TargetSig ==
    IF Stripped(call.to) = SI THEN SourceUnit.val.sig ELSE TargetUnit.val.sig

\* the context of the call in SI units with its defaults, the target being
\* 'SI' or not
ContextOf ==
    Then([kwargs_SI \in {KwargsSI} |->
    DefaultContext(SourceUnit.val.factor, SourceUnit.val.sig, TargetSig, StartValue,
                   kwargs_SI.val)])

\* the keys of the transforms that bridge a delta, in the order in which
\* they are applied: that of the (ste)radians, then that of what remains
BridgesOf(delta) ==
    SelectSeq(<<RadKey(delta),
                IF RadKey(delta) = <<>> THEN delta ELSE Replace(delta, RadKey(delta), <<>>)>>,
              LAMBDA key : key # <<>>)

\* those of the call: none for units of the same signature
Bridges ==
    IF SourceUnit.val.sig = TargetSig THEN <<>> ELSE BridgesOf(Delta.val)

\* every key is in the switch table
InTable(keys) ==
    \A i \in 1..Len(keys) : \E r \in _switch_ : r.key = keys[i] \o To_

\* convert has numbers for the factors of the source and the target unit
\* and a delta of their signatures
IsLinear ==
    /\ IsConvert
    /\ Len(call.args) \in {1, 2}
    /\ SourceUnit.exc = ""
    /\ IsFloat(SourceUnit.val.factor)
    /\ Stripped(call.to) = SI \/ (TargetUnit.exc = "" /\ IsFloat(TargetUnit.val.factor))
    /\ SourceUnit.val.sig # TargetSig => Delta.exc = ""

\* it has a path from the source to the target: the context is accepted
\* and every bridging transform is in the switch table
OnLinearPath ==
    /\ IsLinear
    /\ ContextOf.exc = ""
    /\ InTable(Bridges)

RECURSIVE Bridged(_, _, _)
\* g(value), g being the composition of the transforms of the keys
Bridged(keys, value, kwargs_SI) ==
    IF keys = <<>> \/ value.exc # "" THEN value
    ELSE Bridged(Tail(keys),
                 CallSwitch((CHOOSE r \in _switch_ : r.key = keys[1] \o To_).fn,
                            value.val, kwargs_SI),
                 kwargs_SI)

\* g(facFrom * value) / facTo, then the logarithm and the unpacking
ScaledOnce(keys, kwargs_SI) ==
    With([g \in {Bridged(keys, FMulV(SourceUnit.val.factor, StartValue), kwargs_SI)} |->
    ConvertUnpack(Brackets(call.to),
                  IF g.exc # "" THEN g
                  ELSE Ok(VDiv(g.val, V(IF Stripped(call.to) = SI THEN One
                                        ELSE TargetUnit.val.factor.prefix))),
                  IF HasKey(call.kwargs, "unpack") THEN call.kwargs["unpack"].b ELSE TRUE,
                  Len(call.args))])

\* C28: on every path through convert with numbers for the factors of the
\* source and the target unit, the units having the same signature or
\* bridged by the transform of the (ste)radians, by a switch function or by
\* both, the result is g(facFrom * value) / facTo, g being the composition
\* of the transforms applied: facFrom is applied once.
C28_ScaledOnce ==
    IsLinear =>
       With([kwargs_SI \in {ContextOf} |->
       With([keys \in {Bridges} |->
       (kwargs_SI.exc = "" /\ InTable(keys)) => ret = ScaledOnce(keys, kwargs_SI.val)])])

\* convert('Jy', 'erg/s/cm2/A/sr', 1., wave=(2., 'mum'), ang_diam=(2., 'deg'))
\* has returned a value through per_sr and fnu2flambda
C28_Witness ==
    /\ call.from = <<"J","y">>
    /\ OnLinearPath
    /\ Len(Bridges) = 2
    /\ ret.exc = ""

\* the SI base symbols
SIBase ==
    { <<"m">>, <<"k","g">>, <<"s">>, <<"r","a","d">>, <<"c","y">>, <<"K">>,
      <<"c","o","m","p","l","e","x","_","c","o","o","r","d">>, <<"a","m","p","l">>,
      <<"f","l","u","x","_","r","a","t","i","o">>, <<"J","D">> }

\* breakdown has been called with a key of the base-unit table
IsRegistered ==
    /\ call.op = "breakdown"
    /\ \E r \in _factors_ : r.key = call.from

\* C29: for every key of the base-unit table breakdown succeeds and returns
\* a signature made of SI base symbols only, the empty signature for a
\* pure factor.
C29_Registered ==
    IsRegistered =>
       /\ ret.exc = ""
       /\ \A j \in 1..Len(Split(ret.val.sig)) :
             Written(Split(ret.val.sig)[j]).basis \in SIBase

\* one of the stellar calibrations has been called
IsDerive ==
    call.op \in {"derive_radius", "derive_logg", "derive_mass"}

\* its two arguments
Argument(i) ==
    call.kwargs[(CHOOSE inp \in DeriveInputs : inp.fn = call.op).names[i]]

\* the units the calibration converts its two arguments to
TargetOf(i) ==
    DeriveTo(call.op)[i]

\* convert called with the last element of the argument for the source
\* unit and with its value, the value with its error for a tuple of three
Passed(i) ==
    convert(Argument(i).s, TargetOf(i),
            <<IF Argument(i).kind = "tuple3" THEN uarray(Argument(i).val, Argument(i).err)
              ELSE V(Argument(i).val)>>, NoKwargs)

\* the calibration computed from the two quantities convert returned
Calibrated(a, b) ==
    CASE call.op = "derive_radius" -> Radius(a, b)
      [] call.op = "derive_logg" -> LogG(a, b)
      [] call.op = "derive_mass" -> Mass(a, b)

\* C30: derive_radius, derive_logg and derive_mass take each of their two
\* arguments as (value, units) or as (value, error, units) and in both cases
\* give the last element of the tuple to convert as the source unit and the
\* value, with its error, as the quantity: what they return is computed
\* from these two conversions, or is what the first failing one raised.
C30_Tuples ==
    IsDerive =>
       ret = (IF Passed(1).exc # "" THEN Passed(1)
              ELSE IF Passed(2).exc # "" THEN Passed(2)
              ELSE Calibrated(Passed(1).val, Passed(2).val))

====
